---- MODULE Spec2Model ----
(***************************************************************************)
(* A model of obs-sync's state-replication core:                           *)
(*   - network/server.rs  MasterServer (broadcast server, client roster)   *)
(*   - sync/master.rs     MasterSync   (event consumer, snapshots)         *)
(*   - network/client.rs  SlaveClient  (supervisor, reader tasks)           *)
(*   - sync/slave.rs      SlaveSync    (applier, projection)               *)
(* Each subsystem has its own specification over the shared variables; the *)
(* variables of the other subsystems stay at their initial values.         *)
(***************************************************************************)
EXTENDS Integers, Sequences, FiniteSets, TLC

\* ------------------------------------------------------------------ bounds
\* Upstream frames one client may send during its session.
MaxFrames == 2
\* StateSyncRequest frames among them.
MaxRequests == 1
\* Invocations of the resync_all_slaves command.
MaxResync == 1
\* BC-API events emitted by the master's broadcasting application.
MaxEvents == 2
\* Connections a slave's supervisor establishes.
MaxSessions == 2
\* Messages the master's broadcast task sends to a slave.
MaxMsgs == 2
\* Messages the slave places on its upstream channel.
MaxUp == 2
\* Length of the sources arrays the diff engine is given.
MaxSources == 1
\* Lifecycle commands that return in one run.
MaxCommands == 3
\* Milliseconds the clock advances in one run.
MaxClock == 3
\* Detail-fetch tasks alive at once.
MaxTasks == 2
\* Envelopes one sender places in one run.
MaxStamps == 3
\* Applications of one StateSync in a row.
MaxApplies == 2
\* SlaveClient::new: max_reconnect_attempts
max_reconnect_attempts == 10

\* The peer addresses ("<ip>:<port>") that connect to the master; each connects once,
\* so a client_id names one connection.
Clients == {1, 2}

\* ------------------------------------------------------------- map helpers
\* An insert that forgets the other keys.
InsertAlone(m, k, v) == [x \in {k} |-> v]

\* HashMap::insert / HashMap::remove on a map modelled as a function.
Insert(m, k, v) == [x \in (DOMAIN m) \cup {k} |-> IF x = k THEN v ELSE m[x]]
Remove(m, k) == [x \in (DOMAIN m) \ {k} |-> m[x]]
EmptyMap == [x \in {} |-> 0]

VARIABLES
  \* --- MasterServer (network/server.rs)
  clients,          \* keys of `clients`; the value is the sender half of out_channel[c]
  client_info,      \* client_id -> ClientInfo
  slave_statuses,   \* client_id -> SlaveStatus
  shutdown,         \* AtomicBool
  sync_rx,          \* master outbound channel (MasterSync.message_tx -> sync_rx)
  rx_open,          \* FALSE once the receiver sync_rx has been dropped
  bpc,              \* broadcast task: "recv" | "fanout" | "ended"
  bmsg,             \* the message the broadcast task holds between recv and fan-out
  accept_task,      \* accept task: "running" | "ended"
  hpc,              \* handle_connection position, per client
  out_channel,      \* per client: every frame ever enqueued on its out_channel
  send_task,        \* per client: "none" (not spawned) | "running" | "ended" (rx dropped)
  stop_pc,          \* position of the stop() call
  cbTasks,          \* per client: initial-state futures spawned and not yet run
  \* --- history of the run (not program state)
  produced,         \* messages ever placed on the outbound channel
  cbCount,          \* per client: invocations of the initial-state callback
  reqCount,         \* per client: StateSyncRequest frames received
  frames,           \* per client: upstream frames received
  resyncs,          \* resync_all_slaves commands issued
  atDrain,          \* keys of `clients` when the broadcast task drained bmsg
  drained,          \* ids of the messages drained by the broadcast task, in drain order
  \* --- MasterSync (sync/master.rs)
  active_targets,   \* the set of sync targets
  obs_event_rx,     \* BC-API events queued for the event consumer
  epc,              \* event consumer: "recv" | "dispatch"
  ev,               \* the event the consumer holds
  fetchTasks,       \* detail-fetch tasks spawned and not yet run
  \* --- history of the run (not program state)
  events,           \* BC-API events emitted so far
  spawned,          \* detail-fetch tasks spawned so far
  evLog,            \* the dispatched events: kind and the targets read for it
  \* --- SlaveClient (network/client.rs)
  should_reconnect, \* AtomicBool
  message_tx,       \* Option<sender>: "None" | "Some"
  sync_message_tx,  \* Option<sender>: TRUE when Some
  reconnection_status,
  current_attempt,
  spc,              \* supervisor: "head" | "sleep" | "check" | "connect" | "store" | "hold"
                    \*             | "cancelled" | "exhausted"
  attempt,          \* the supervisor's consecutive-failure counter
  rpc,              \* per session: "pending" | "reading" | "clearSync" | "status" | "ended"
  dpc,              \* disconnect(): "idle" | "status" | "clearTx" | "clearSync" | "done"
  wire,             \* per session: frames sent by the master and not yet read
  rx,               \* the applier channel
  \* --- SlaveSync (sync/slave.rs) and the applier loop (commands.rs)
  apc,              \* applier: "recv" | "project" | "mutate"
  amsg,             \* the message being applied
  expected_state,   \* the expected-state projection
  local_scene,      \* the program scene of the slave's broadcasting application
  \* --- history of the run (not program state)
  msgs,             \* messages the master produced for this slave so far
  sent,             \* per session: ids of the messages the master sent on it
  applied,          \* the applier's log: session and id of each message taken
  waited,           \* seconds the supervisor slept since its last connection attempt
  attemptLog,       \* the waits that preceded the attempts since the last success
  expected0,        \* the projection when the applier took amsg
  applyOutcome,     \* how the mutation for amsg ended ("none": not yet)
  walked,           \* the BC-API mutations attempted for amsg and how each ended
  \* --- the upstream send task of connect() (network/client.rs)
  send_rx,          \* the upstream channel (send_tx -> send_rx)
  send_ready_rx,    \* writer halves handed over by the supervisor, by session
  current_sender,   \* the task's Option<SplitSink>: 0 is None, else the session
  \* --- history of the run (not program state)
  up_sent,          \* frames the send task wrote: session and message
  up_failed,        \* ids of the messages whose write returned an error
  accepted,         \* number of request_resync() calls that returned Ok
  \* --- the drift detector of start_periodic_check (sync/slave.rs) and its inputs
  tpc,              \* periodic task: "tick" (waiting for the interval) | "compare"
  local_state,      \* the local state the task sampled in this iteration
  alerts,           \* the alert channel (alert_tx -> alert_rx): every alert sent
  local_items,      \* the items of the program scene of the slave's application
  \* --- history of the run (not program state)
  ticks,            \* iterations of the periodic task that sampled a local state
  \* --- AppState and the lifecycle commands (commands.rs)
  master_server,    \* Option<Arc<MasterServer>>: TRUE when Some
  master_sync,      \* Option<Arc<MasterSync>>: TRUE when Some
  slave_client,     \* Option<Arc<SlaveClient>>: TRUE when Some
  obs_connected,    \* the BC-API session of obs_client exists
  app_pc,           \* stop_master_server: "idle" | "stopping"
  \* --- history of the run (not program state)
  results,          \* the lifecycle commands that returned: name, result, messages placed
  \* --- the clock and the builders of one sender's envelopes (sync/protocol.rs)
  now,              \* chrono::Utc::now().timestamp_millis()
  building,         \* per builder: the timestamp of the envelope it holds (0: none)
  \* --- history of the run (not program state)
  stamps,           \* the timestamps of the envelopes in the order they were placed
  \* --- one envelope through the codec (sync/protocol.rs, serde_json)
  envelope,         \* the SyncMessage a sender built
  json,             \* the JSON document serde_json::to_string produced (null before)
  decoded,          \* what serde_json::from_str returned for json (NoResult before)
  \* --- the slave's broadcasting application behind the BC-API, and one message
  obs,              \* preview scene, transform of the item, filter, image of the source
  cache_files,      \* image files written to the cache directory so far
  sync_in,          \* the payload of the message applied in this run
  answers,          \* how the BC-API answers each mutation of sync_in in this run
  \* --- history of the run (not program state)
  obs_log,          \* program scene, obs and projection after each application
  \* --- the master's broadcasting application, and the reads of the fetch tasks
  m_scene,          \* program scene
  m_preview,        \* preview scene
  m_xform,          \* position_x of the scene item
  held              \* detail-fetch task -> the transform its read returned

serverVars == <<clients, client_info, slave_statuses, shutdown, sync_rx, rx_open, bpc,
                bmsg, accept_task, hpc, out_channel, send_task, stop_pc,
                cbTasks,
                produced, cbCount, reqCount, frames, resyncs, atDrain, drained>>

engineVars == <<active_targets, obs_event_rx, epc, ev, fetchTasks, events, spawned, evLog>>

\* What the server leaves alone, and what the engine leaves alone of the server
\* (the engine writes the outbound channel).
clientVars == <<should_reconnect, message_tx, sync_message_tx, reconnection_status,
                current_attempt, spc, attempt, rpc, dpc, wire, rx, msgs, sent, waited,
                attemptLog>>
slaveVars == <<apc, amsg, expected_state, local_scene, applied, expected0, applyOutcome,
               walked>>

upVars == <<send_rx, send_ready_rx, current_sender, up_sent, up_failed, accepted>>

driftVars == <<tpc, local_state, alerts, local_items, ticks>>

appVars == <<master_server, master_sync, slave_client, obs_connected, app_pc, results>>

\* The state outside the server, the engine, the slave and its tasks.
clockVars == <<now, building, stamps>>

codecVars == <<envelope, json, decoded>>

bcVars == <<obs, cache_files, sync_in, answers, obs_log>>

convVars == <<m_scene, m_preview, m_xform, held>>

extVars == <<appVars, clockVars, codecVars, bcVars, convVars>>

notServer == <<engineVars, clientVars, slaveVars, upVars, driftVars, extVars>>
serverButChannel == <<clients, client_info, slave_statuses, shutdown, rx_open, bpc, bmsg,
                      accept_task, hpc, out_channel, send_task, stop_pc, cbTasks, cbCount,
                      reqCount, frames, resyncs, atDrain, drained>>
notEngine == <<serverButChannel, clientVars, slaveVars, upVars, driftVars, extVars>>
\* What the supervisor, the reader tasks and the applier leave alone.
notSlave == <<serverVars, engineVars, upVars, driftVars, extVars>>

vars == <<serverVars, engineVars, clientVars, slaveVars, upVars, driftVars, extVars>>

\* Payloads: the fields the handlers read. value 0 stands for null / absent, "" for a
\* field that is missing or not a string.
Payload(scene, item, name, value) ==
  [scene_name |-> scene, item |-> item, name |-> name, value |-> value,
   current_program_scene |-> ""]
EmptyPayload == Payload("", 0, "", 0)

NoMsg == [id |-> 0, type |-> "None", target_type |-> "None", payload |-> EmptyPayload,
          origin |-> 0]

\* SyncMessage::new; id numbers the messages in the order they are placed on the
\* outbound channel, origin is the client whose callback built it (0: none).
SyncMessage(n, ty, target, payload, from) ==
  [id |-> n, type |-> ty, target_type |-> target, payload |-> payload, origin |-> from]

\* ----------------------------------------------------------------- server
InitServer ==
  /\ clients = {}
  /\ client_info = EmptyMap
  /\ slave_statuses = EmptyMap
  /\ shutdown = FALSE
  /\ sync_rx = <<>>
  /\ rx_open = TRUE
  /\ bpc = "recv"
  /\ bmsg = NoMsg
  /\ accept_task = "running"
  /\ hpc = [c \in Clients |-> "idle"]
  /\ out_channel = [c \in Clients |-> <<>>]
  /\ send_task = [c \in Clients |-> "none"]
  /\ stop_pc = "running"
  /\ cbTasks = [c \in Clients |-> 0]
  /\ produced = 0
  /\ cbCount = [c \in Clients |-> 0]
  /\ reqCount = [c \in Clients |-> 0]
  /\ frames = [c \in Clients |-> 0]
  /\ resyncs = 0
  /\ atDrain = {}
  /\ drained = <<>>


\* The receiving half of out_channel[c] exists from its creation until send_task,
\* which owns it, ends or is aborted.
ChannelOpen(c) == send_task[c] # "ended"

TextFrame(m) == [kind |-> "Text", msg |-> m]
PongFrame == [kind |-> "Pong", msg |-> NoMsg]

\* A send on a channel whose receiver is gone.
EnqueueDropped(q, m) == q

\* message_tx.send(msg): the message is queued unless the receiver was dropped.
Enqueue(q, m) == IF rx_open THEN Append(q, m) ELSE q

Send(m) ==
  /\ sync_rx' = Enqueue(sync_rx, m)
  /\ produced' = IF rx_open THEN produced + 1 ELSE produced

\* A fan-out that answers only the client whose callback built the message.
FanOutToOrigin(oc, cs, frame) ==
  [c \in Clients |-> IF c \in cs /\ ChannelOpen(c) /\ frame.msg.origin \in {0, c}
                       THEN Append(oc[c], frame) ELSE oc[c]]

\* A fan-out that stops after the first registered client.
FanOutFirstOnly(oc, cs, frame) ==
  [c \in Clients |-> IF c \in cs /\ ChannelOpen(c) /\ (\A d \in cs : c <= d)
                       THEN Append(oc[c], frame) ELSE oc[c]]

\* for (client_id, tx) in clients_lock.iter() { tx.send(Message::Text(json.clone())) }
\* A send to a channel whose receiver is gone fails and is only logged.
FanOut(oc, cs, frame) ==
  [c \in Clients |-> IF c \in cs /\ ChannelOpen(c) THEN Append(oc[c], frame) ELSE oc[c]]

\* sync_rx.recv() returned a message; the shutdown flag is read next.
BroadcastRecv ==
  /\ bpc = "recv"
  /\ sync_rx # <<>>
  /\ sync_rx' = Tail(sync_rx)
  /\ drained' = Append(drained, Head(sync_rx).id)
  /\ IF shutdown
       THEN /\ bpc' = "ended"
            /\ rx_open' = FALSE
            /\ bmsg' = NoMsg
            /\ atDrain' = {}
       ELSE /\ bpc' = "fanout"
            /\ rx_open' = rx_open
            /\ bmsg' = Head(sync_rx)
            /\ atDrain' = clients
  /\ UNCHANGED <<clients, client_info, slave_statuses, shutdown, accept_task, hpc,
                 out_channel, send_task, stop_pc, cbTasks, produced, cbCount,
                 reqCount, frames, resyncs>>
  /\ UNCHANGED notServer

\* clients.read().await, then one send per registered client.
BroadcastFanOut ==
  /\ bpc = "fanout"
  /\ out_channel' = FanOut(out_channel, clients, TextFrame(bmsg))
  /\ atDrain' = {}
  /\ bpc' = "recv"
  /\ bmsg' = NoMsg
  /\ UNCHANGED <<clients, client_info, slave_statuses, shutdown, sync_rx, rx_open,
                 accept_task, hpc, send_task, stop_pc, cbTasks, produced,
                 cbCount, reqCount, frames, resyncs, drained>>
  /\ UNCHANGED notServer

\* listener.accept() returned a connection from peer c; handle_connection is spawned.
\* The loop head then reads the shutdown flag.
Accept(c) ==
  /\ accept_task = "running"
  /\ hpc[c] = "idle"
  /\ hpc' = [hpc EXCEPT ![c] = "handshake"]
  /\ accept_task' = IF shutdown THEN "ended" ELSE "running"
  /\ UNCHANGED <<clients, client_info, slave_statuses, shutdown, sync_rx, rx_open, bpc,
                 bmsg, out_channel, send_task, stop_pc, cbTasks, produced,
                 cbCount, reqCount, frames, resyncs, atDrain, drained>>
  /\ UNCHANGED notServer

\* listener.accept() failed: the accept loop breaks.
AcceptError ==
  /\ accept_task = "running"
  /\ accept_task' = "ended"
  /\ UNCHANGED <<clients, client_info, slave_statuses, shutdown, sync_rx, rx_open, bpc,
                 bmsg, hpc, out_channel, send_task, stop_pc, cbTasks, produced,
                 cbCount, reqCount, frames, resyncs, atDrain, drained>>
  /\ UNCHANGED notServer

\* accept_async failed: handle_connection returns before touching any map.
HandshakeFail(c) ==
  /\ hpc[c] = "handshake"
  /\ hpc' = [hpc EXCEPT ![c] = "failed"]
  /\ UNCHANGED <<clients, client_info, slave_statuses, shutdown, sync_rx, rx_open, bpc,
                 bmsg, accept_task, out_channel, send_task, stop_pc, cbTasks,
                 produced, cbCount, reqCount, frames, resyncs, atDrain, drained>>
  /\ UNCHANGED notServer

\* accept_async succeeded; out_channel is created and its sender stored in `clients`.
HandshakeOk(c) ==
  /\ hpc[c] = "handshake"
  /\ clients' = clients \cup {c}
  /\ hpc' = [hpc EXCEPT ![c] = "insInfo"]
  /\ UNCHANGED <<client_info, slave_statuses, shutdown, sync_rx, rx_open, bpc, bmsg,
                 accept_task, out_channel, send_task, stop_pc, cbTasks, produced,
                 cbCount, reqCount, frames, resyncs, atDrain, drained>>
  /\ UNCHANGED notServer

\* The initial-state callback: cb(client_id) builds the future, tokio::spawn runs it.
InvokeCallback(cnt, tasks, c) ==
  [count |-> [cnt EXCEPT ![c] = @ + 1], tasks |-> [tasks EXCEPT ![c] = @ + 1]]

\* client_info insert, then the callback for the new client, then send_task is spawned.
RegisterInfo(c) ==
  /\ hpc[c] = "insInfo"
  /\ client_info' = Insert(client_info, c, [last_activity |-> 0])
  /\ cbCount' = InvokeCallback(cbCount, cbTasks, c).count
  /\ cbTasks' = InvokeCallback(cbCount, cbTasks, c).tasks
  /\ send_task' = [send_task EXCEPT ![c] = "running"]
  /\ hpc' = [hpc EXCEPT ![c] = "reading"]
  /\ UNCHANGED <<clients, slave_statuses, shutdown, sync_rx, rx_open, bpc, bmsg,
                 accept_task, out_channel, stop_pc, produced, reqCount, frames,
                 resyncs, atDrain, drained>>
  /\ UNCHANGED notServer

\* send_task: ws_sender.send(message) failed; the loop breaks and rx is dropped.
WriterFail(c) ==
  /\ send_task[c] = "running"
  /\ out_channel[c] # <<>>
  /\ send_task' = [send_task EXCEPT ![c] = "ended"]
  /\ UNCHANGED <<clients, client_info, slave_statuses, shutdown, sync_rx, rx_open, bpc,
                 bmsg, accept_task, hpc, out_channel, stop_pc, cbTasks, produced,
                 cbCount, reqCount, frames, resyncs, atDrain, drained>>
  /\ UNCHANGED notServer

\* if let Some(info_entry) = info.get_mut(&client_id) { last_activity = now }
Touch(info, c) == IF c \in DOMAIN info THEN [info EXCEPT ![c].last_activity = 1] ELSE info

\* Frames that keep the reader loop running.
UpFrames == {"Ping", "StateSyncRequest", "StateReport", "StateReportBad", "OtherType",
             "Garbage", "UnknownType", "Binary"}

\* A reader that also runs the callback for state reports.
TriggersCallbackOnReport(k) == k \in {"StateSyncRequest", "StateReport"}

\* Does a frame of kind k trigger the initial-state callback?
TriggersCallback(k) == k = "StateSyncRequest"

\* One iteration of the reader loop for a frame that does not end the session.
RecvFrame(c, k, synced) ==
  /\ hpc[c] = "reading"
  /\ frames[c] < MaxFrames
  /\ k = "StateSyncRequest" => reqCount[c] < MaxRequests
  /\ frames' = [frames EXCEPT ![c] = @ + 1]
  /\ client_info' = Touch(client_info, c)
  /\ out_channel' = IF k = "Ping" /\ c \in clients /\ ChannelOpen(c)
                      THEN [out_channel EXCEPT ![c] = Append(@, PongFrame)]
                      ELSE out_channel
  /\ reqCount' = IF k = "StateSyncRequest" THEN [reqCount EXCEPT ![c] = @ + 1]
                                           ELSE reqCount
  /\ cbCount' = IF TriggersCallback(k) THEN InvokeCallback(cbCount, cbTasks, c).count
                                       ELSE cbCount
  /\ cbTasks' = IF TriggersCallback(k) THEN InvokeCallback(cbCount, cbTasks, c).tasks
                                       ELSE cbTasks
  /\ slave_statuses' = IF k = "StateReport"
                         THEN Insert(slave_statuses, c, [is_synced |-> synced])
                         ELSE slave_statuses
  /\ UNCHANGED <<clients, shutdown, sync_rx, rx_open, bpc, bmsg, accept_task, hpc,
                 send_task, stop_pc, produced, resyncs, atDrain, drained>>
  /\ UNCHANGED notServer

\* Close frame or socket error: last_activity is updated, the loop breaks and the
\* client is removed from `clients`. End of stream (eof) skips the update.
RecvEnd(c, eof) ==
  /\ hpc[c] = "reading"
  /\ client_info' = IF eof THEN client_info ELSE Touch(client_info, c)
  /\ clients' = clients \ {c}
  /\ hpc' = [hpc EXCEPT ![c] = "rmInfo"]
  /\ UNCHANGED <<slave_statuses, shutdown, sync_rx, rx_open, bpc, bmsg, accept_task,
                 out_channel, send_task, stop_pc, cbTasks, produced, cbCount,
                 reqCount, frames, resyncs, atDrain, drained>>
  /\ UNCHANGED notServer

\* client_info.write().await.remove(&client_id)
RemoveInfo(c) ==
  /\ hpc[c] = "rmInfo"
  /\ client_info' = Remove(client_info, c)
  /\ hpc' = [hpc EXCEPT ![c] = "rmStatus"]
  /\ UNCHANGED <<clients, slave_statuses, shutdown, sync_rx, rx_open, bpc, bmsg,
                 accept_task, out_channel, send_task, stop_pc, cbTasks, produced,
                 cbCount, reqCount, frames, resyncs, atDrain, drained>>
  /\ UNCHANGED notServer

\* slave_statuses.write().await.remove(&client_id); send_task.abort()
RemoveStatus(c) ==
  /\ hpc[c] = "rmStatus"
  /\ slave_statuses' = Remove(slave_statuses, c)
  /\ send_task' = [send_task EXCEPT ![c] = "ended"]
  /\ hpc' = [hpc EXCEPT ![c] = "closed"]
  /\ UNCHANGED <<clients, client_info, shutdown, sync_rx, rx_open, bpc, bmsg,
                 accept_task, out_channel, stop_pc, cbTasks, produced, cbCount,
                 reqCount, frames, resyncs, atDrain, drained>>
  /\ UNCHANGED notServer


\* The StateSync envelope send_initial_state builds: target_type is always Program.
StateSyncMsg(n, from) == SyncMessage(n, "StateSync", "Program", EmptyPayload, from)

\* send_initial_state: when the BC-API session is missing or the program-scene or
\* scene-list read fails (ok = FALSE) it returns without sending; otherwise it places
\* exactly one StateSync on the outbound channel.
SendInitialState(from, ok) ==
  IF ok THEN Send(StateSyncMsg(produced + 1, from)) ELSE UNCHANGED <<sync_rx, produced>>

\* The future built by the initial-state callback: a 500 ms sleep, then
\* send_initial_state.
CallbackTask(c, ok) ==
  /\ cbTasks[c] > 0
  /\ cbTasks' = [cbTasks EXCEPT ![c] = @ - 1]
  /\ SendInitialState(c, ok)
  /\ UNCHANGED <<clients, client_info, slave_statuses, shutdown, rx_open, bpc, bmsg,
                 accept_task, hpc, out_channel, send_task, stop_pc, cbCount,
                 reqCount, frames, resyncs, atDrain, drained>>
  /\ UNCHANGED notServer

\* resync_all_slaves / resync_specific_slave while master_sync is Some.
ResyncAll(ok) ==
  /\ stop_pc # "stopped"
  /\ resyncs < MaxResync
  /\ resyncs' = resyncs + 1
  /\ SendInitialState(0, ok)
  /\ UNCHANGED <<clients, client_info, slave_statuses, shutdown, rx_open, bpc, bmsg,
                 accept_task, hpc, out_channel, send_task, stop_pc, cbTasks,
                 cbCount, reqCount, frames, atDrain, drained>>
  /\ UNCHANGED notServer

\* stop(): self.shutdown.store(true)
StopSignal ==
  /\ stop_pc = "running"
  /\ shutdown' = TRUE
  /\ stop_pc' = "abort"
  /\ UNCHANGED <<clients, client_info, slave_statuses, sync_rx, rx_open, bpc, bmsg,
                 accept_task, hpc, out_channel, send_task, cbTasks, produced,
                 cbCount, reqCount, frames, resyncs, atDrain, drained>>
  /\ UNCHANGED notServer

\* stop(): task.abort() for the broadcast task and the accept task. The connection
\* handlers and the initial-state futures are not among `tasks`.
StopAbort ==
  /\ stop_pc = "abort"
  /\ bpc' = "ended"
  /\ bmsg' = NoMsg
  /\ atDrain' = {}
  /\ rx_open' = FALSE
  /\ accept_task' = "ended"
  /\ stop_pc' = "clearClients"
  /\ UNCHANGED <<clients, client_info, slave_statuses, shutdown, sync_rx, hpc,
                 out_channel, send_task, cbTasks, produced, cbCount, reqCount,
                 frames, resyncs, drained>>
  /\ UNCHANGED notServer

\* stop(): self.clients.write().await.clear()
StopClearClients ==
  /\ stop_pc = "clearClients"
  /\ clients' = {}
  /\ stop_pc' = "clearInfo"
  /\ UNCHANGED <<client_info, slave_statuses, shutdown, sync_rx, rx_open, bpc, bmsg,
                 accept_task, hpc, out_channel, send_task, cbTasks, produced,
                 cbCount, reqCount, frames, resyncs, atDrain, drained>>
  /\ UNCHANGED notServer

\* stop(): self.client_info.write().await.clear()
StopClearInfo ==
  /\ stop_pc = "clearInfo"
  /\ client_info' = EmptyMap
  /\ stop_pc' = "clearStatuses"
  /\ UNCHANGED <<clients, slave_statuses, shutdown, sync_rx, rx_open, bpc, bmsg,
                 accept_task, hpc, out_channel, send_task, cbTasks, produced,
                 cbCount, reqCount, frames, resyncs, atDrain, drained>>
  /\ UNCHANGED notServer

\* stop(): self.slave_statuses.write().await.clear()
StopClearStatuses ==
  /\ stop_pc = "clearStatuses"
  /\ slave_statuses' = EmptyMap
  /\ stop_pc' = "stopped"
  /\ UNCHANGED <<clients, client_info, shutdown, sync_rx, rx_open, bpc, bmsg,
                 accept_task, hpc, out_channel, send_task, cbTasks, produced,
                 cbCount, reqCount, frames, resyncs, atDrain, drained>>
  /\ UNCHANGED notServer

\* The roster: connection handlers, upstream frames, writer failure and stop().
NextRoster ==
  \/ AcceptError
  \/ \E c \in Clients : Accept(c)
  \/ \E c \in Clients : HandshakeFail(c)
  \/ \E c \in Clients : HandshakeOk(c)
  \/ \E c \in Clients : RegisterInfo(c)
  \/ \E c \in Clients : WriterFail(c)
  \/ \E c \in Clients, k \in UpFrames, synced \in BOOLEAN : RecvFrame(c, k, synced)
  \/ \E c \in Clients, eof \in BOOLEAN : RecvEnd(c, eof)
  \/ \E c \in Clients : RemoveInfo(c)
  \/ \E c \in Clients : RemoveStatus(c)
  \/ StopSignal
  \/ StopAbort
  \/ StopClearClients
  \/ StopClearInfo
  \/ StopClearStatuses

\* The reader loops of the connection handlers fed with upstream text frames of
\* every kind, clients joining and leaving, and stop().
NextReports ==
  \/ \E c \in Clients : Accept(c)
  \/ \E c \in Clients : HandshakeOk(c)
  \/ \E c \in Clients : RegisterInfo(c)
  \/ \E c \in Clients, k \in UpFrames \ {"Ping", "Binary"}, synced \in BOOLEAN :
       RecvFrame(c, k, synced)
  \/ \E c \in Clients : RecvEnd(c, FALSE)
  \/ \E c \in Clients : RemoveInfo(c)
  \/ \E c \in Clients : RemoveStatus(c)
  \/ StopSignal
  \/ StopAbort
  \/ StopClearClients
  \/ StopClearInfo
  \/ StopClearStatuses

\* The broadcast path: producers, the broadcast task, clients joining and leaving,
\* writer failure and stop(). Upstream frames, which touch only client_info,
\* slave_statuses and the callback, are left to NextRoster.
NextBroadcast ==
  \/ BroadcastRecv
  \/ BroadcastFanOut
  \/ \E c \in Clients : Accept(c)
  \/ \E c \in Clients : HandshakeOk(c)
  \/ \E c \in Clients : RegisterInfo(c)
  \/ \E c \in Clients : WriterFail(c)
  \/ \E c \in Clients : RecvEnd(c, TRUE)
  \/ \E c \in Clients : RemoveInfo(c)
  \/ \E c \in Clients : RemoveStatus(c)
  \/ \E c \in Clients, ok \in BOOLEAN : CallbackTask(c, ok)
  \/ \E ok \in BOOLEAN : ResyncAll(ok)
  \/ StopSignal
  \/ StopAbort
  \/ StopClearClients
  \/ StopClearInfo
  \/ StopClearStatuses

\* The clients that send StateSyncRequests in the resync runs.
Requesters == {1}

\* A running master whose BC-API reads succeed: connections, StateSyncRequests,
\* callback tasks and the broadcast task; no stop.
NextResync ==
  \/ BroadcastRecv
  \/ BroadcastFanOut
  \/ \E c \in Requesters : RecvFrame(c, "StateSyncRequest", FALSE)
  \/ \E c \in Clients :
        \/ Accept(c)
        \/ HandshakeOk(c)
        \/ RegisterInfo(c)
        \/ WriterFail(c)
        \/ RecvEnd(c, TRUE)
        \/ RemoveInfo(c)
        \/ RemoveStatus(c)
        \/ CallbackTask(c, TRUE)

\* The runtime keeps running the spawned callback futures and the broadcast task.
FairResync ==
  /\ WF_vars(BroadcastRecv)
  /\ WF_vars(BroadcastFanOut)
  /\ \A c \in Clients : WF_vars(CallbackTask(c, TRUE))

\* ----------------------------------------------------------------- engine
Targets == {"Program", "Preview", "Source"}
\* The target selections the UI is driven through.
TargetSets == {{"Program"}, {"Source"}, {"Program", "Source"}, {"Preview", "Source"}}
Scenes == {"A", "B"}

\* BC-API events the consumer matches on (master.rs lines 42-362).
Event(kind, scene, item, name) ==
  [kind |-> kind, scene_name |-> scene, item |-> item, name |-> name]
NoEvent == Event("None", "", 0, "")
EventSet ==
  {Event("SceneChanged", sc, 0, "") : sc \in Scenes}
  \cup {Event("CurrentPreviewSceneChanged", "A", 0, ""),
        Event("SceneItemTransformChanged", "A", 1, ""),
        Event("SceneItemFilterChanged", "A", 1, "blur"),
        Event("InputSettingsChanged", "", 0, "Logo")}

\* MasterSync::new: active_targets = [Program, Source].
InitEngine ==
  /\ active_targets = {"Program", "Source"}
  /\ obs_event_rx = <<>>
  /\ epc = "recv"
  /\ ev = NoEvent
  /\ fetchTasks = {}
  /\ events = 0
  /\ spawned = 0
  /\ evLog = {}

\* set_active_targets: *self.active_targets.write().await = targets
SetActiveTargets(T) ==
  /\ active_targets' = T
  /\ UNCHANGED <<obs_event_rx, epc, ev, fetchTasks, events, spawned, evLog>>
  /\ UNCHANGED <<sync_rx, produced>>
  /\ UNCHANGED notEngine

\* OBSEventHandler: an event of the BC-API stream is forwarded to the consumer.
ObsEvent(e) ==
  /\ events < MaxEvents
  /\ events' = events + 1
  /\ obs_event_rx' = Append(obs_event_rx, e)
  /\ UNCHANGED <<active_targets, epc, ev, fetchTasks, spawned, evLog>>
  /\ UNCHANGED <<sync_rx, produced>>
  /\ UNCHANGED notEngine

\* obs_event_rx.recv().await returned an event.
EngineRecv ==
  /\ epc = "recv"
  /\ obs_event_rx # <<>>
  /\ ev' = Head(obs_event_rx)
  /\ obs_event_rx' = Tail(obs_event_rx)
  /\ epc' = "dispatch"
  /\ UNCHANGED <<active_targets, fetchTasks, events, spawned, evLog>>
  /\ UNCHANGED <<sync_rx, produced>>
  /\ UNCHANGED notEngine

\* A dispatch that tests every arm against Program.
RequiredTargetProgram(kind) == "Program"

\* The target an event kind requires (the `targets.contains` test of its arm).
RequiredTarget(kind) ==
  CASE kind = "SceneChanged" -> "Program"
    [] kind = "CurrentPreviewSceneChanged" -> "Preview"
    [] OTHER -> "Source"

\* The arms that build their message inline; the others spawn a detail-fetch task.
Inline(kind) == kind \in {"SceneChanged", "CurrentPreviewSceneChanged"}

\* The SceneChange message of the two scene arms.
SceneChangeMsg(n, e) ==
  SyncMessage(n, "SceneChange", RequiredTarget(e.kind), Payload(e.scene_name, 0, "", 0), 0)

\* let targets = active_targets.read().await.clone(); match event { ... }
EngineDispatch ==
  /\ epc = "dispatch"
  /\ epc' = "recv"
  /\ ev' = NoEvent
  /\ evLog' = evLog \cup {[kind |-> ev.kind, targets |-> active_targets]}
  /\ IF RequiredTarget(ev.kind) \in active_targets
       THEN IF Inline(ev.kind)
              THEN /\ Send(SceneChangeMsg(produced + 1, ev))
                   /\ UNCHANGED <<fetchTasks, spawned>>
              ELSE /\ fetchTasks' = fetchTasks \cup {[n |-> spawned + 1, ev |-> ev]}
                   /\ spawned' = spawned + 1
                   /\ UNCHANGED <<sync_rx, produced>>
       ELSE UNCHANGED <<fetchTasks, spawned, sync_rx, produced>>
  /\ UNCHANGED <<active_targets, obs_event_rx, events>>
  /\ UNCHANGED notEngine

\* Outcomes of a detail fetch: "ok"; "fail" (no BC-API session or the read failed);
\* for an input: "nofile" (settings without a file path) and "noimage" (the file
\* could not be read, image_data is null).
FetchOutcomes(kind) ==
  IF kind = "InputSettingsChanged" THEN {"ok", "fail", "nofile", "noimage"}
                                   ELSE {"ok", "fail"}

\* A fetch that sends whatever its reads returned.
FetchSendsAlways(kind, outcome) == outcome # "nofile"

\* Does the fetch place a message on the outbound channel?
FetchSends(kind, outcome) ==
  IF kind = "InputSettingsChanged" THEN outcome \in {"ok", "noimage"} ELSE outcome = "ok"

\* The message a detail-fetch task builds; all have target_type Source.
FetchMsg(n, e, outcome) ==
  CASE e.kind = "SceneItemTransformChanged" ->
         SyncMessage(n, "TransformUpdate", "Source", Payload(e.scene_name, e.item, "", 1), 0)
    [] e.kind = "SceneItemFilterChanged" ->
         SyncMessage(n, "FilterUpdate", "Source", Payload(e.scene_name, e.item, e.name, 1), 0)
    [] OTHER ->
         SyncMessage(n, "ImageUpdate", "Source",
                     Payload("", 0, e.name, IF outcome = "ok" THEN 1 ELSE 0), 0)

\* A spawned detail-fetch task runs to its end.
FetchTask(t, outcome) ==
  /\ t \in fetchTasks
  /\ outcome \in FetchOutcomes(t.ev.kind)
  /\ fetchTasks' = fetchTasks \ {t}
  /\ IF FetchSends(t.ev.kind, outcome)
       THEN Send(FetchMsg(produced + 1, t.ev, outcome))
       ELSE UNCHANGED <<sync_rx, produced>>
  /\ UNCHANGED <<active_targets, obs_event_rx, epc, ev, events, spawned, evLog>>
  /\ UNCHANGED notEngine

\* --------------------------------------------------------------- JSON values
\* serde_json::Value, as far as the payloads go: null, booleans, integers, floats (in
\* hundredths), strings, arrays and objects.
VNull == [k |-> "Null"]
VBool(b) == [k |-> "Bool", v |-> b]
VInt(n) == [k |-> "Int", v |-> n]
VFloat(h) == [k |-> "Float", v |-> h]
VString(str) == [k |-> "String", v |-> str]
VArray(items) == [k |-> "Array", v |-> items]
VObject(map) == [k |-> "Object", v |-> map]

\* What inputs().settings returned for the input of an InputSettingsChanged.
SettingsErr == [err |-> TRUE]
SettingsResults ==
  {SettingsErr,
   [file |-> VString("logo.png")], [file |-> VString("")], [file |-> VNull],
   [url |-> VString("logo.png")]}

\* A file_path that is taken from the settings only when the key exists: an empty
\* path counts as a path.
FilePathOfKey(settings) ==
  IF "file" \in DOMAIN settings THEN "present" ELSE ""

\* settings.get("file").and_then(|v| v.as_str()).unwrap_or("")
FilePath(settings) ==
  IF "file" \in DOMAIN settings /\ settings.file.k = "String" THEN settings.file.v ELSE ""

\* How the task of an InputSettingsChanged ends for what the BC-API returned and
\* for whether tokio::fs::read of the file succeeds.
InputOutcome(settings, readable) ==
  IF settings = SettingsErr THEN "fail"
  ELSE IF FilePath(settings) = "" THEN "nofile"
  ELSE IF readable THEN "ok" ELSE "noimage"

\* The detail-fetch task of an InputSettingsChanged runs to its end.
InputFetchTask(t, settings, readable) ==
  /\ t \in fetchTasks
  /\ t.ev.kind = "InputSettingsChanged"
  /\ fetchTasks' = fetchTasks \ {t}
  /\ evLog' = evLog \cup {[kind |-> "settings", targets |-> active_targets,
                           settings |-> settings]}
  /\ IF FetchSends(t.ev.kind, InputOutcome(settings, readable))
       THEN Send(FetchMsg(produced + 1, t.ev, InputOutcome(settings, readable)))
       ELSE UNCHANGED <<sync_rx, produced>>
  /\ UNCHANGED <<active_targets, obs_event_rx, epc, ev, events, spawned>>
  /\ UNCHANGED notEngine

\* The event pipeline fed with InputSettingsChanged events for every kind of input
\* settings, and preview scene changes, under every target selection.
NextInput ==
  \/ \E T \in TargetSets : SetActiveTargets(T)
  \/ \E e \in {x \in EventSet : x.kind \in {"InputSettingsChanged",
                                             "CurrentPreviewSceneChanged"}} : ObsEvent(e)
  \/ EngineRecv
  \/ EngineDispatch
  \/ \E t \in fetchTasks, settings \in SettingsResults, readable \in BOOLEAN :
       InputFetchTask(t, settings, readable)

\* The event pipeline under the initial targets: events of every kind and detail
\* fetches with every ending.
NextFetch ==
  \/ \E e \in EventSet : ObsEvent(e)
  \/ EngineRecv
  \/ EngineDispatch
  \/ \E t \in fetchTasks, o \in {"ok", "fail", "nofile", "noimage"} : FetchTask(t, o)

\* The event pipeline of the master with snapshots on demand and target changes.
NextEngine ==
  \/ \E T \in TargetSets : SetActiveTargets(T)
  \/ \E e \in EventSet : ObsEvent(e)
  \/ EngineRecv
  \/ EngineDispatch
  \/ \E t \in fetchTasks, o \in {"ok", "fail", "nofile", "noimage"} : FetchTask(t, o)
  \/ \E ok \in BOOLEAN : ResyncAll(ok)

\* ------------------------------------------ the master's application
\* The master's application shows scene "A" in program and preview, the item at 8;
\* no detail fetch holds a value.
InitMaster ==
  /\ m_scene = "A"
  /\ m_preview = "A"
  /\ m_xform = 8
  /\ held = EmptyMap

\* ------------------------------------------------------- application state
\* What a command returned: n counts the returns, ok is Ok(..) against Err(..), placed
\* the messages the command put on an outbound channel.
Result(n, cmd, ok, placed) == [n |-> n, cmd |-> cmd, ok |-> ok, placed |-> placed]

\* The component models start where start_master_server and connect_to_master have
\* returned Ok.
InitApp ==
  /\ master_server = TRUE
  /\ master_sync = TRUE
  /\ slave_client = TRUE
  /\ obs_connected = TRUE
  /\ app_pc = "idle"
  /\ results = Result(0, "none", TRUE, 0)

\* ---------------------------------------------------- envelope timestamps
\* The builders of the master's envelopes: the event consumer of start_monitoring,
\* which sends the scene changes itself, and the detail-fetch tasks it spawns.
Builders == {0} \cup (1..MaxTasks)

InitClock ==
  /\ now = 1
  /\ building = [b \in Builders |-> 0]
  /\ stamps = <<>>

\* A millisecond passes.
ClockTick ==
  /\ now < MaxClock
  /\ now' = now + 1
  /\ UNCHANGED <<building, stamps>>
  /\ UNCHANGED <<serverVars, engineVars, clientVars, slaveVars, upVars, driftVars, appVars, codecVars, bcVars, convVars>>

\* SyncMessage::new: builder b reads the clock into the envelope's timestamp.
BuildEnvelope(b) ==
  /\ building[b] = 0
  /\ Len(stamps) + Cardinality({c \in Builders : building[c] # 0}) < MaxStamps
  /\ building' = [building EXCEPT ![b] = now]
  /\ UNCHANGED <<now, stamps>>
  /\ UNCHANGED <<serverVars, engineVars, clientVars, slaveVars, upVars, driftVars, appVars, codecVars, bcVars, convVars>>

\* message_tx.send(msg): the envelope builder b holds is placed on the channel.
PlaceEnvelope(b) ==
  /\ building[b] # 0
  /\ stamps' = Append(stamps, building[b])
  /\ building' = [building EXCEPT ![b] = 0]
  /\ UNCHANGED now
  /\ UNCHANGED <<serverVars, engineVars, clientVars, slaveVars, upVars, driftVars, appVars, codecVars, bcVars, convVars>>

NextClock ==
  \/ ClockTick
  \/ \E b \in Builders : BuildEnvelope(b)
  \/ \E b \in Builders : PlaceEnvelope(b)

\* ------------------------------------------------------------------ codec
\* The nodes of a JSON document: a number token is written with a fraction or without.
JNull == [t |-> "null"]
JBool(b) == [t |-> IF b THEN "true" ELSE "false"]
JNumber(fraction, n) == [t |-> "number", fraction |-> fraction, digits |-> n]
JString(str) == [t |-> "string", chars |-> str]
JArray(items) == [t |-> "array", items |-> items]
JObject(members) == [t |-> "object", members |-> members]

\* impl Serialize for Value
RECURSIVE SerializeValue(_)
SerializeValue(v) ==
  CASE v.k = "Null" -> JNull
    [] v.k = "Bool" -> JBool(v.v)
    [] v.k = "Int" -> JNumber(FALSE, v.v)
    [] v.k = "Float" -> JNumber(TRUE, v.v)
    [] v.k = "String" -> JString(v.v)
    [] v.k = "Array" -> JArray([i \in 1..Len(v.v) |-> SerializeValue(v.v[i])])
    [] OTHER -> JObject([f \in DOMAIN v.v |-> SerializeValue(v.v[f])])

\* impl Deserialize for Value
RECURSIVE DeserializeValue(_)
DeserializeValue(j) ==
  CASE j.t = "null" -> VNull
    [] j.t = "true" -> VBool(TRUE)
    [] j.t = "false" -> VBool(FALSE)
    [] j.t = "number" -> IF j.fraction THEN VFloat(j.digits) ELSE VInt(j.digits)
    [] j.t = "string" -> VString(j.chars)
    [] j.t = "array" -> VArray([i \in 1..Len(j.items) |-> DeserializeValue(j.items[i])])
    [] OTHER -> VObject([f \in DOMAIN j.members |-> DeserializeValue(j.members[f])])

\* enum SyncMessageType
MessageTypes == {"SourceUpdate", "TransformUpdate", "SceneChange", "ImageUpdate",
                 "FilterUpdate", "Heartbeat", "StateSync", "StateSyncRequest",
                 "StateReport"}

\* enum SyncTargetType
TargetTypes == {"Source", "Preview", "Program"}

\* A renaming that drops the variant's last word.
SnakeCaseShort(variant) ==
  CASE variant = "SourceUpdate" -> "source"
    [] variant = "TransformUpdate" -> "transform"
    [] variant = "SceneChange" -> "scene"
    [] variant = "ImageUpdate" -> "image"
    [] variant = "FilterUpdate" -> "filter"
    [] variant = "Heartbeat" -> "heartbeat"
    [] variant = "StateSync" -> "state"
    [] variant = "StateSyncRequest" -> "state"
    [] variant = "StateReport" -> "state"
    [] variant = "Source" -> "source"
    [] variant = "Preview" -> "preview"
    [] OTHER -> "program"

\* #[serde(rename_all = "snake_case")] on the two enums.
SnakeCase(variant) ==
  CASE variant = "SourceUpdate" -> "source_update"
    [] variant = "TransformUpdate" -> "transform_update"
    [] variant = "SceneChange" -> "scene_change"
    [] variant = "ImageUpdate" -> "image_update"
    [] variant = "FilterUpdate" -> "filter_update"
    [] variant = "Heartbeat" -> "heartbeat"
    [] variant = "StateSync" -> "state_sync"
    [] variant = "StateSyncRequest" -> "state_sync_request"
    [] variant = "StateReport" -> "state_report"
    [] variant = "Source" -> "source"
    [] variant = "Preview" -> "preview"
    [] OTHER -> "program"

\* struct SyncMessage with its four fields.
Envelope(ty, ts, target, payload) ==
  [message_type |-> ty, timestamp |-> ts, target_type |-> target, payload |-> payload]

\* serde_json::to_string(&msg): the derived Serialize writes the four members,
\* message_type under the name "type".
to_string(msg) ==
  JObject([type |-> JString(SnakeCase(msg.message_type)),
           timestamp |-> JNumber(FALSE, msg.timestamp),
           target_type |-> JString(SnakeCase(msg.target_type)),
           payload |-> SerializeValue(msg.payload)])

NoResult == [ok |-> FALSE, error |-> "none"]
ParseError == [ok |-> FALSE, error |-> "parse"]

\* The variants of an enum whose serialized name is the string name.
Variant(enum, name) == {v \in enum : SnakeCase(v) = name}

\* serde_json::from_str::<SyncMessage>(&text): the derived Deserialize wants an object
\* with the four members, the two enum members naming a variant and the timestamp
\* an integer.
from_str(j) ==
  IF /\ j.t = "object"
     /\ {"type", "timestamp", "target_type", "payload"} \subseteq DOMAIN j.members
     /\ j.members.type.t = "string"
     /\ Variant(MessageTypes, j.members.type.chars) # {}
     /\ j.members.target_type.t = "string"
     /\ Variant(TargetTypes, j.members.target_type.chars) # {}
     /\ j.members.timestamp.t = "number"
     /\ ~j.members.timestamp.fraction
    THEN [ok |-> TRUE,
          msg |-> Envelope(CHOOSE v \in Variant(MessageTypes, j.members.type.chars) : TRUE,
                           j.members.timestamp.digits,
                           CHOOSE v \in Variant(TargetTypes, j.members.target_type.chars) : TRUE,
                           DeserializeValue(j.members.payload))]
    ELSE ParseError

\* The envelope of the component runs, in which the codec does not act.
InitCodec ==
  /\ envelope = Envelope("Heartbeat", 1, "Program", VNull)
  /\ json = JNull
  /\ decoded = NoResult

\* Payloads: every kind of value, the request's empty object, a transform update with
\* floats and a snapshot with an array of objects.
PayloadValues ==
  {VNull, VBool(TRUE), VInt(0 - 3), VFloat(150), VString(""), VString("A"),
   VArray(<<>>), VObject(EmptyMap),
   VObject([scene_name |-> VString("A"), scene_item_id |-> VInt(1),
            transform |-> VObject([position_x |-> VFloat(0 - 1050),
                                   scale_x |-> VFloat(100)])]),
   VObject([current_program_scene |-> VString("A"), current_preview_scene |-> VNull,
            scenes |-> VArray(<<VObject([name |-> VString("A"),
                                         items |-> VArray(<<VInt(1), VBool(FALSE)>>)])>>)])}

\* The well-formed envelopes: every message_type, every target_type, the payloads.
Envelopes ==
  {Envelope(ty, ts, target, payload) :
     ty \in MessageTypes, ts \in 1..MaxClock, target \in TargetTypes,
     payload \in PayloadValues}

\* The sender serializes the envelope.
Encode ==
  /\ json = JNull
  /\ json' = to_string(envelope)
  /\ UNCHANGED <<envelope, decoded>>
  /\ UNCHANGED <<serverVars, engineVars, clientVars, slaveVars, upVars, driftVars,
                 appVars, clockVars, bcVars, convVars>>

\* The receiver parses the text frame.
Decode ==
  /\ json # JNull
  /\ decoded = NoResult
  /\ decoded' = from_str(json)
  /\ UNCHANGED <<envelope, json>>
  /\ UNCHANGED <<serverVars, engineVars, clientVars, slaveVars, upVars, driftVars,
                 appVars, clockVars, bcVars, convVars>>

NextCodec == Encode \/ Decode

\* ----------------------------------------------------------- slave client
Min(a, b) == IF a <= b THEN a ELSE b

\* ReconnectionStatus; last_error is "None" or the kind of the error text.
Status(r, n, mx, e) ==
  [is_reconnecting |-> r, attempt_count |-> n, max_attempts |-> mx, last_error |-> e]

\* SlaveClient::new and the locals of connect().
InitClient ==
  /\ should_reconnect = TRUE
  /\ message_tx = "None"
  /\ sync_message_tx = FALSE
  /\ reconnection_status = Status(FALSE, 0, 10, "None")
  /\ current_attempt = 0
  /\ spc = "head"
  /\ attempt = 0
  /\ rpc = <<>>
  /\ dpc = "idle"
  /\ wire = <<>>
  /\ rx = <<>>
  /\ msgs = 0
  /\ sent = <<>>
  /\ waited = 0
  /\ attemptLog = <<>>

\* A back-off without the 30 s cap.
DelayUncapped(a) == 2 ^ (a - 1)

\* std::cmp::min(2_u64.pow(attempt - 1), 30); attempt <= max_reconnect_attempts,
\* so the power stays far below 2^64.
Delay(a) == Min(2 ^ (a - 1), 30)

\* Loop head: the should_reconnect check and, for attempt > 0, the status update
\* that precedes the back-off sleep.
SupHead ==
  /\ spc = "head"
  /\ IF ~should_reconnect
       THEN /\ reconnection_status' = [reconnection_status EXCEPT
                 !.is_reconnecting = FALSE, !.attempt_count = 0, !.last_error = "None"]
            /\ current_attempt' = 0
            /\ spc' = "cancelled"
       ELSE IF attempt > 0
         THEN /\ reconnection_status' = [reconnection_status EXCEPT
                   !.is_reconnecting = TRUE, !.attempt_count = attempt,
                   !.max_attempts = max_reconnect_attempts]
              /\ current_attempt' = attempt
              /\ spc' = "sleep"
         ELSE /\ spc' = "check"
              /\ UNCHANGED <<reconnection_status, current_attempt>>
  /\ UNCHANGED <<should_reconnect, message_tx, sync_message_tx, attempt, rpc, dpc, wire,
                 rx, msgs, sent, waited, attemptLog>>
  /\ UNCHANGED <<slaveVars, notSlave>>

\* tokio::time::sleep(Duration::from_secs(delay)) has elapsed.
SupSleep ==
  /\ spc = "sleep"
  /\ waited' = waited + Delay(attempt)
  /\ spc' = "check"
  /\ UNCHANGED <<should_reconnect, message_tx, sync_message_tx, reconnection_status,
                 current_attempt, attempt, rpc, dpc, wire, rx, msgs, sent, attemptLog>>
  /\ UNCHANGED <<slaveVars, notSlave>>

\* if attempt >= max_attempts { status ...; break } else connect_async is started.
SupCheck ==
  /\ spc = "check"
  /\ IF attempt >= max_reconnect_attempts
       THEN /\ reconnection_status' = [reconnection_status EXCEPT
                 !.is_reconnecting = FALSE, !.attempt_count = attempt,
                 !.last_error = "MaxAttempts"]
            /\ current_attempt' = 0
            /\ spc' = "exhausted"
       ELSE /\ spc' = "connect"
            /\ UNCHANGED <<reconnection_status, current_attempt>>
  /\ UNCHANGED <<should_reconnect, message_tx, sync_message_tx, attempt, rpc, dpc, wire,
                 rx, msgs, sent, waited, attemptLog>>
  /\ UNCHANGED <<slaveVars, notSlave>>

\* connect_async returned Ok: the counter is reset and the status is published.
ConnectOk ==
  /\ spc = "connect"
  /\ Len(rpc) < MaxSessions
  /\ attempt' = 0
  /\ reconnection_status' = [reconnection_status EXCEPT
       !.is_reconnecting = FALSE, !.attempt_count = 0, !.last_error = "None"]
  /\ current_attempt' = 0
  /\ rpc' = Append(rpc, "pending")
  /\ wire' = Append(wire, <<>>)
  /\ sent' = Append(sent, <<>>)
  /\ attemptLog' = <<>>
  /\ waited' = 0
  /\ spc' = "store"
  /\ UNCHANGED <<should_reconnect, message_tx, sync_message_tx, dpc, rx, msgs>>
  /\ UNCHANGED <<slaveVars, notSlave>>

\* The sender for upstream requests is stored, the writer half handed over and the
\* reader task of the new connection spawned.
SupStore ==
  /\ spc = "store"
  /\ sync_message_tx' = TRUE
  /\ rpc' = [rpc EXCEPT ![Len(rpc)] = "reading"]
  /\ send_ready_rx' = Append(send_ready_rx, Len(rpc))
  /\ spc' = "hold"
  /\ UNCHANGED <<should_reconnect, message_tx, reconnection_status, current_attempt,
                 attempt, dpc, wire, rx, msgs, sent, waited, attemptLog>>
  /\ UNCHANGED <<slaveVars, serverVars, engineVars, extVars, driftVars>>
  /\ UNCHANGED <<send_rx, current_sender, up_sent, up_failed, accepted>>

\* The one-second sleep that follows a successful connection has elapsed.
SupWake ==
  /\ spc = "hold"
  /\ waited' = waited + 1
  /\ spc' = "head"
  /\ UNCHANGED <<should_reconnect, message_tx, sync_message_tx, reconnection_status,
                 current_attempt, attempt, rpc, dpc, wire, rx, msgs, sent, attemptLog>>
  /\ UNCHANGED <<slaveVars, notSlave>>

\* connect_async returned Err.
ConnectFail ==
  /\ spc = "connect"
  /\ attempt' = attempt + 1
  /\ reconnection_status' = [reconnection_status EXCEPT
       !.is_reconnecting = TRUE, !.attempt_count = attempt + 1,
       !.last_error = "ConnectError"]
  /\ current_attempt' = attempt + 1
  /\ attemptLog' = Append(attemptLog, waited)
  /\ waited' = 0
  /\ spc' = "head"
  /\ UNCHANGED <<should_reconnect, message_tx, sync_message_tx, rpc, dpc, wire, rx,
                 msgs, sent>>
  /\ UNCHANGED <<slaveVars, notSlave>>

\* The sessions whose connection the master can still write to.
Live == {s \in 1..Len(rpc) : rpc[s] \in {"pending", "reading"}}

\* The master's broadcast task sends message m to this slave: one frame per open
\* connection of the slave, each connection being a client of its own to the master.
MasterSend(ty, target, payload) ==
  /\ msgs < MaxMsgs
  /\ Live # {}
  /\ msgs' = msgs + 1
  /\ wire' = [s \in 1..Len(wire) |->
                IF s \in Live
                  THEN Append(wire[s], SyncMessage(msgs + 1, ty, target, payload, 0))
                  ELSE wire[s]]
  /\ sent' = [s \in 1..Len(sent) |->
                IF s \in Live THEN Append(sent[s], msgs + 1) ELSE sent[s]]
  /\ UNCHANGED <<should_reconnect, message_tx, sync_message_tx, reconnection_status,
                 current_attempt, spc, attempt, rpc, dpc, rx, waited, attemptLog>>
  /\ UNCHANGED <<slaveVars, notSlave>>

\* A reader that forwards whatever it reads.
ParsesAnything(m) == TRUE

\* serde_json::from_str::<SyncMessage>(&text) returns Ok: the text is an envelope
\* whose message_type is one of the enum's.
Parses(m) == m.type \in MessageTypes

\* Reader task: a text frame that parses is passed to the applier channel, any other
\* is logged and skipped.
ReaderRecv(s) ==
  /\ rpc[s] = "reading"
  /\ wire[s] # <<>>
  /\ rx' = IF Parses(Head(wire[s]))
             THEN Append(rx, [session |-> s, msg |-> Head(wire[s])]) ELSE rx
  /\ wire' = [wire EXCEPT ![s] = Tail(@)]
  /\ UNCHANGED <<should_reconnect, message_tx, sync_message_tx, reconnection_status,
                 current_attempt, spc, attempt, rpc, dpc, msgs, sent, waited, attemptLog>>
  /\ UNCHANGED <<slaveVars, notSlave>>

\* Reader task: Close, an error or the end of the stream; reconnection is signalled
\* and message_tx cleared.
ReaderLost(s) ==
  /\ rpc[s] = "reading"
  /\ should_reconnect' = TRUE
  /\ message_tx' = "None"
  /\ wire' = [wire EXCEPT ![s] = <<>>]
  /\ rpc' = [rpc EXCEPT ![s] = "clearSync"]
  /\ UNCHANGED <<sync_message_tx, reconnection_status, current_attempt, spc, attempt, dpc,
                 rx, msgs, sent, waited, attemptLog>>
  /\ UNCHANGED <<slaveVars, notSlave>>

ReaderClearSync(s) ==
  /\ rpc[s] = "clearSync"
  /\ sync_message_tx' = FALSE
  /\ rpc' = [rpc EXCEPT ![s] = "status"]
  /\ UNCHANGED <<should_reconnect, message_tx, reconnection_status, current_attempt, spc,
                 attempt, dpc, wire, rx, msgs, sent, waited, attemptLog>>
  /\ UNCHANGED <<slaveVars, notSlave>>

ReaderStatus(s) ==
  /\ rpc[s] = "status"
  /\ reconnection_status' = [reconnection_status EXCEPT
       !.is_reconnecting = TRUE, !.attempt_count = 0, !.last_error = "ConnectionLost"]
  /\ rpc' = [rpc EXCEPT ![s] = "ended"]
  /\ UNCHANGED <<should_reconnect, message_tx, sync_message_tx, current_attempt, spc,
                 attempt, dpc, wire, rx, msgs, sent, waited, attemptLog>>
  /\ UNCHANGED <<slaveVars, notSlave>>

\* disconnect(): should_reconnect.store(false)
DisconnectSignal ==
  /\ dpc = "idle"
  /\ should_reconnect' = FALSE
  /\ dpc' = "status"
  /\ UNCHANGED <<message_tx, sync_message_tx, reconnection_status, current_attempt, spc,
                 attempt, rpc, wire, rx, msgs, sent, waited, attemptLog>>
  /\ UNCHANGED <<slaveVars, notSlave>>

DisconnectStatus ==
  /\ dpc = "status"
  /\ reconnection_status' = [reconnection_status EXCEPT
       !.is_reconnecting = FALSE, !.attempt_count = 0, !.last_error = "None"]
  /\ current_attempt' = 0
  /\ dpc' = "clearTx"
  /\ UNCHANGED <<should_reconnect, message_tx, sync_message_tx, spc, attempt, rpc, wire,
                 rx, msgs, sent, waited, attemptLog>>
  /\ UNCHANGED <<slaveVars, notSlave>>

DisconnectClearTx ==
  /\ dpc = "clearTx"
  /\ message_tx' = "None"
  /\ dpc' = "clearSync"
  /\ UNCHANGED <<should_reconnect, sync_message_tx, reconnection_status, current_attempt,
                 spc, attempt, rpc, wire, rx, msgs, sent, waited, attemptLog>>
  /\ UNCHANGED <<slaveVars, notSlave>>

\* sync_message_tx is cleared; ws_stream is never assigned, so take() finds None and
\* no connection is closed.
DisconnectClearSync ==
  /\ dpc = "clearSync"
  /\ sync_message_tx' = FALSE
  /\ dpc' = "done"
  /\ UNCHANGED <<should_reconnect, message_tx, reconnection_status, current_attempt, spc,
                 attempt, rpc, wire, rx, msgs, sent, waited, attemptLog>>
  /\ UNCHANGED <<slaveVars, notSlave>>

\* ------------------------------------------------------- upstream send task
\* connect(): the channels and the send task's local, before the task first runs.
InitUp ==
  /\ send_rx = <<>>
  /\ send_ready_rx = <<>>
  /\ current_sender = 0
  /\ up_sent = <<>>
  /\ up_failed = {}
  /\ accepted = 0

\* A message of the upstream channel; id numbers the resync requests in the order
\* they are enqueued (0: not a request). SyncMessage::state_sync_request has an empty
\* object as payload.
UpMsg(n, ty, body) == [id |-> n, type |-> ty, target_type |-> "Program", payload |-> body]

\* request_resync() with sync_message_tx = Some: the request is enqueued and Ok
\* returned. (With None it returns Err and changes nothing.)
RequestResync ==
  /\ sync_message_tx
  /\ accepted < MaxUp
  /\ send_rx' = Append(send_rx, UpMsg(accepted + 1, "StateSyncRequest", EmptyMap))
  /\ accepted' = accepted + 1
  /\ UNCHANGED <<send_ready_rx, current_sender, up_sent, up_failed>>
  /\ UNCHANGED <<clientVars, slaveVars, serverVars, engineVars, extVars, driftVars>>

\* select! takes the branch send_ready_rx.recv(): the writer half of a new connection
\* replaces current_sender.
UpTakeSender ==
  /\ send_ready_rx # <<>>
  /\ current_sender' = Head(send_ready_rx)
  /\ send_ready_rx' = Tail(send_ready_rx)
  /\ UNCHANGED <<send_rx, up_sent, up_failed, accepted>>
  /\ UNCHANGED <<clientVars, slaveVars, serverVars, engineVars, extVars, driftVars>>

\* A send task that puts a message it cannot send back on its channel.
UpTakeMsgRequeue(ok) ==
  /\ send_rx # <<>>
  /\ IF current_sender = 0
       THEN /\ send_rx' = Append(Tail(send_rx), Head(send_rx))
            /\ UNCHANGED <<current_sender, up_sent, up_failed>>
       ELSE /\ send_rx' = Tail(send_rx)
            /\ IF ok /\ rpc[current_sender] = "reading"
                 THEN /\ up_sent' = Append(up_sent, [session |-> current_sender,
                                                       msg |-> Head(send_rx)])
                      /\ UNCHANGED <<current_sender, up_failed>>
                 ELSE /\ current_sender' = 0
                      /\ up_failed' = up_failed \cup {Head(send_rx).id}
                      /\ UNCHANGED up_sent
  /\ UNCHANGED <<send_ready_rx, accepted>>
  /\ UNCHANGED <<clientVars, slaveVars, serverVars, engineVars, extVars, driftVars>>

\* select! takes the branch send_rx.recv(): with current_sender = None the message is
\* discarded; otherwise it is written to the connection, and a write error clears
\* current_sender. A write succeeds only while the connection is open.
UpTakeMsg(ok) ==
  /\ send_rx # <<>>
  /\ send_rx' = Tail(send_rx)
  /\ IF current_sender = 0
       THEN UNCHANGED <<current_sender, up_sent, up_failed>>
       ELSE IF ok /\ rpc[current_sender] = "reading"
         THEN /\ up_sent' = Append(up_sent, [session |-> current_sender,
                                               msg |-> Head(send_rx)])
              /\ UNCHANGED <<current_sender, up_failed>>
         ELSE /\ current_sender' = 0
              /\ up_failed' = up_failed \cup {Head(send_rx).id}
              /\ UNCHANGED up_sent
  /\ UNCHANGED <<send_ready_rx, accepted>>
  /\ UNCHANGED <<clientVars, slaveVars, serverVars, engineVars, extVars, driftVars>>

\* ------------------------------------------------------------ diff engine
\* A JSON object is a record; a key the object lacks is a field the record lacks.
\* Numbers are in hundredths (position 0.5 is 50, scale 1.0 is 100).
\* DiffDetector::TRANSFORM_TOLERANCE = 0.5
TRANSFORM_TOLERANCE == 50
\* The literal 0.01 the scale comparison uses.
SCALE_TOLERANCE == 1
\* unwrap_or(1.0) of the scale fields.
DEFAULT_SCALE == 100

\* v.get(f).and_then(as_str).unwrap_or("") and v.get(f).and_then(as_f64).unwrap_or(d)
StrField(v, f) == IF f \in DOMAIN v THEN v[f] ELSE ""
NumField(v, f, d) == IF f \in DOMAIN v THEN v[f] ELSE d

Abs(x) == IF x < 0 THEN 0 - x ELSE x

\* struct StateDifference; description keeps the words the text starts with.
StateDifference(cat, scene, source, text, sev) ==
  [category |-> cat, scene_name |-> scene, source_name |-> source,
   description |-> text, severity |-> sev]

\* A position comparison with the tolerance of the scale comparison.
PositionDiffersTight(lt, et) ==
  \/ Abs(NumField(lt, "position_x", 0) - NumField(et, "position_x", 0)) > SCALE_TOLERANCE
  \/ Abs(NumField(lt, "position_y", 0) - NumField(et, "position_y", 0)) > SCALE_TOLERANCE

PositionDiffers(lt, et) ==
  \/ Abs(NumField(lt, "position_x", 0) - NumField(et, "position_x", 0))
       > TRANSFORM_TOLERANCE
  \/ Abs(NumField(lt, "position_y", 0) - NumField(et, "position_y", 0))
       > TRANSFORM_TOLERANCE

ScaleDiffers(lt, et) ==
  \/ Abs(NumField(lt, "scale_x", DEFAULT_SCALE) - NumField(et, "scale_x", DEFAULT_SCALE))
       > SCALE_TOLERANCE
  \/ Abs(NumField(lt, "scale_y", DEFAULT_SCALE) - NumField(et, "scale_y", DEFAULT_SCALE))
       > SCALE_TOLERANCE

\* compare_transforms; None and Some(empty) both add nothing to the list.
CompareTransforms(local_source, expected_source, scene_name, source_name) ==
  IF "transform" \notin DOMAIN local_source \/ "transform" \notin DOMAIN expected_source
    THEN <<>>
    ELSE LET lt == local_source.transform
             et == expected_source.transform
         IN (IF PositionDiffers(lt, et)
               THEN <<StateDifference("TransformMismatch", scene_name, source_name,
                                      "Position mismatch", "Warning")>>
               ELSE <<>>)
            \o
            (IF ScaleDiffers(lt, et)
               THEN <<StateDifference("TransformMismatch", scene_name, source_name,
                                      "Scale mismatch", "Warning")>>
               ELSE <<>>)

\* The body of the loop over expected_sources, for one expected source.
SourceDifferences(local_sources, expected_source, lscene) ==
  LET expected_name == StrField(expected_source, "name")
      same == {i \in 1..Len(local_sources) :
                 StrField(local_sources[i], "name") = expected_name}
  IN IF same = {}
       THEN <<StateDifference("SourceMissing", lscene, expected_name,
                              "Source is missing", "Warning")>>
       ELSE CompareTransforms(local_sources[CHOOSE i \in same : \A j \in same : i <= j],
                              expected_source, lscene, expected_name)

\* A scene comparison that reports a mismatch against an empty expectation as well.
SceneDiffersAlways(lscene, escene) == lscene # escene

SceneDiffers(lscene, escene) ==
  lscene # escene /\ escene # ""

\* DiffDetector::detect_differences
DetectDifferences(local, expected) ==
  LET lscene == StrField(local, "current_scene")
      escene == StrField(expected, "current_scene")
      scene == IF SceneDiffers(lscene, escene)
                 THEN <<StateDifference("SceneMismatch", escene, "",
                                        "Current scene mismatch", "Critical")>>
                 ELSE <<>>
      walk[i \in 0..(IF "sources" \in DOMAIN expected THEN Len(expected.sources) ELSE 0)] ==
        IF i = 0 THEN <<>>
        ELSE walk[i - 1] \o SourceDifferences(local.sources, expected.sources[i],
                                               lscene)
  IN scene \o
     (IF "sources" \in DOMAIN local /\ "sources" \in DOMAIN expected
        THEN walk[Len(expected.sources)] ELSE <<>>)

\* ---------------------------------------------------------- drift detector
\* SlaveSync::new, start_periodic_check before the first tick; the application shows
\* scene "A" (InitSlave) with no items.
NoSample == [current_scene |-> "", sources |-> <<>>]

InitDrift ==
  /\ tpc = "tick"
  /\ local_state = NoSample
  /\ alerts = <<>>
  /\ local_items = <<>>
  /\ ticks = 0

\* format!("{:?}", current_scene): the Debug rendering of the BC-API library's value,
\* which wraps the scene name and is never the bare name.
DebugFormat(scene) == "Debug(" \o scene \o ")"

\* get_current_obs_state returning Ok.
GetCurrentObsState(scene, items) ==
  [current_scene |-> DebugFormat(scene), sources |-> items]

\* The operator of the slave's application switches the program scene.
OperatorSwitch(scene) ==
  /\ local_scene # scene
  /\ local_scene' = scene
  /\ UNCHANGED <<apc, amsg, expected_state, applied, expected0, applyOutcome, walked>>
  /\ UNCHANGED <<clientVars, serverVars, engineVars, extVars, upVars, driftVars>>

\* interval.tick() has fired and get_current_obs_state has returned: Ok with the
\* local state, or Err (no BC-API session, or a BC-API call failed), after which the
\* iteration ends with nothing sent.
TickSample(ok) ==
  /\ tpc = "tick"
  /\ ticks < MaxUp
  /\ IF ok
       THEN /\ local_state' = GetCurrentObsState(local_scene, local_items)
            /\ ticks' = ticks + 1
            /\ tpc' = "compare"
       ELSE UNCHANGED <<local_state, ticks, tpc>>
  /\ UNCHANGED <<alerts, local_items>>
  /\ UNCHANGED <<clientVars, slaveVars, serverVars, engineVars, extVars, upVars>>

\* expected.is_null() || expected is an empty object; the applier's projection keeps
\* "" for the absent current_scene, its only key.
ProjectionEmpty(expected) == DOMAIN expected = {} \/ expected = [current_scene |-> ""]

\* An alert severity that does not depend on the difference.
AlertSeverityWarning(sev) == "Warning"

\* DiffSeverity::Critical => AlertSeverity::Error, _ => AlertSeverity::Warning
AlertSeverity(sev) == IF sev = "Critical" THEN "Error" ELSE "Warning"

\* struct DesyncAlert (id and timestamp left out).
DesyncAlert(scene, source, text, sev) ==
  [scene_name |-> scene, source_name |-> source, message |-> text, severity |-> sev]

\* The alerts of the loop over diffs, in order.
DiffAlerts(diffs) ==
  [i \in 1..Len(diffs) |->
     DesyncAlert(diffs[i].scene_name, diffs[i].source_name, diffs[i].description,
                 AlertSeverity(diffs[i].severity))]

\* The StateReport of one iteration; desync_details has one entry per difference.
StateReport(diffs, local) ==
  UpMsg(0, "StateReport",
        [is_synced |-> diffs = <<>>,
         desync_details |-> [i \in 1..Len(diffs) |->
                               [category |-> diffs[i].category,
                                scene_name |-> diffs[i].scene_name,
                                source_name |-> diffs[i].source_name,
                                description |-> diffs[i].description,
                                severity |-> diffs[i].severity]],
         current_state |-> local])

\* The rest of the iteration, under the read lock on expected_state: with an empty
\* projection nothing is sent; otherwise the differences are computed, the report is
\* enqueued on the upstream channel (state_report_tx is set before the task starts)
\* and one alert per difference is sent.
TickReport ==
  /\ tpc = "compare"
  /\ tpc' = "tick"
  /\ IF ProjectionEmpty(expected_state)
       THEN UNCHANGED <<send_rx, alerts>>
       ELSE LET diffs == DetectDifferences(local_state, expected_state)
            IN /\ send_rx' = Append(send_rx, StateReport(diffs, local_state))
               /\ alerts' = alerts \o DiffAlerts(diffs)
  /\ UNCHANGED <<local_state, local_items, ticks>>
  /\ UNCHANGED <<send_ready_rx, current_sender, up_sent, up_failed, accepted>>
  /\ UNCHANGED <<clientVars, slaveVars, serverVars, engineVars, extVars>>

\* ------------------------------------------------------------ slave applier
\* SlaveSync::new: expected_state = json!({}); "" is an absent current_scene.
InitSlave ==
  /\ apc = "recv"
  /\ amsg = NoMsg
  /\ expected_state = [current_scene |-> ""]
  /\ local_scene = "A"
  /\ applied = <<>>
  /\ expected0 = [current_scene |-> ""]
  /\ applyOutcome = "none"
  /\ walked = <<>>

\* The payload of a StateSync snapshot.
StatePayload(program) == [EmptyPayload EXCEPT !.current_program_scene = program]

\* Messages the master sends in the slave runs: type, target, payload.
DownMsgs ==
  {<<"SceneChange", "Program", Payload("B", 0, "", 0)>>,
   <<"SceneChange", "Preview", Payload("A", 0, "", 0)>>,
   <<"SceneChange", "Program", EmptyPayload>>,
   <<"StateSync", "Program", StatePayload("B")>>,
   <<"TransformUpdate", "Source", Payload("A", 1, "", 1)>>}

\* An applier that leaves the projection alone.
UpdateExpectedStateSkipped(exp, m) == exp

\* update_expected_state
UpdateExpectedState(exp, m) ==
  CASE m.type = "SceneChange" ->
         IF m.payload.scene_name # ""
           THEN [exp EXCEPT !.current_scene = m.payload.scene_name] ELSE exp
    [] m.type = "StateSync" ->
         IF m.payload.current_program_scene # ""
           THEN [exp EXCEPT !.current_scene = m.payload.current_program_scene] ELSE exp
    [] OTHER -> exp

\* while let Some(message) = rx.recv().await
ApplierRecv ==
  /\ apc = "recv"
  /\ rx # <<>>
  /\ amsg' = Head(rx).msg
  /\ rx' = Tail(rx)
  /\ applied' = Append(applied, [session |-> Head(rx).session, id |-> Head(rx).msg.id])
  /\ expected0' = expected_state
  /\ applyOutcome' = "none"
  /\ walked' = <<>>
  /\ apc' = "project"
  /\ UNCHANGED <<expected_state, local_scene>>
  /\ UNCHANGED <<should_reconnect, message_tx, sync_message_tx, reconnection_status,
                 current_attempt, spc, attempt, rpc, dpc, wire, msgs, sent, waited,
                 attemptLog>>
  /\ UNCHANGED notSlave

\* apply_sync_message: self.update_expected_state(&message).await
ApplyProject ==
  /\ apc = "project"
  /\ expected_state' = UpdateExpectedState(expected_state, amsg)
  /\ apc' = "mutate"
  /\ UNCHANGED <<amsg, local_scene, applied, expected0, applyOutcome, walked>>
  /\ UNCHANGED <<clientVars, notSlave>>

\* How the rest of apply_sync_message can end: "noclient" (no BC-API session, Err
\* before any call), "invalid" (a required payload field is missing, Err), "fail"
\* (the BC-API call failed, an alert is sent), "ok".
MutateOutcomes(m) ==
  IF m.type = "SceneChange" /\ m.payload.scene_name = ""
    THEN {"noclient", "invalid"}
    ELSE {"noclient", "fail", "ok"}

\* The program scene a successful application of m leaves; a SceneChange sets the
\* program scene whatever its target_type.
SceneAfter(m, scene) ==
  CASE m.type = "SceneChange" -> m.payload.scene_name
    [] m.type = "StateSync" /\ m.payload.current_program_scene # "" ->
         m.payload.current_program_scene
    [] OTHER -> scene

\* An attempted mutation: what it changes, on which source, and how it ended.
Mutation(kind, source, o) == [kind |-> kind, source |-> source, outcome |-> o]

\* The one mutation of a message that is not a snapshot with a scene list.
MutationKind(m) ==
  CASE m.type = "SceneChange" -> "program"
    [] m.type = "StateSync" -> "program"
    [] m.type = "TransformUpdate" -> "transform"
    [] OTHER -> "other"

\* send_alert for the failed mutation of m: Error for a SceneChange, Warning for the
\* other messages.
ApplyAlert(m) ==
  CASE m.type = "SceneChange" ->
         DesyncAlert(m.payload.scene_name, "", "Failed to change scene", "Error")
    [] m.type = "StateSync" ->
         DesyncAlert(m.payload.current_program_scene, "", "Failed to sync initial scene",
                     "Warning")
    [] OTHER -> DesyncAlert(m.payload.scene_name, "", "Failed to update", "Warning")

\* apply_sync_message after the projection update: Err before any BC-API call, or,
\* for a message with one BC-API mutation, that mutation; its failure sends an alert
\* and the function returns Ok.
ApplyMutate(o) ==
  /\ apc = "mutate"
  /\ o \in MutateOutcomes(amsg)
  /\ o \in {"ok", "fail"} => "scenes" \notin DOMAIN amsg.payload
  /\ local_scene' = IF o = "ok" THEN SceneAfter(amsg, local_scene) ELSE local_scene
  /\ applyOutcome' = o
  /\ walked' = IF o \in {"ok", "fail"}
                 THEN <<Mutation(MutationKind(amsg), "", o)>> ELSE <<>>
  /\ alerts' = IF o = "fail" THEN Append(alerts, ApplyAlert(amsg)) ELSE alerts
  /\ apc' = "recv"
  /\ UNCHANGED <<amsg, expected_state, applied, expected0>>
  /\ UNCHANGED <<tpc, local_state, local_items, ticks>>
  /\ UNCHANGED <<clientVars, serverVars, engineVars, extVars, upVars>>

\* A slave with the master reachable and scene changes coming in: supervisor,
\* readers, applier.
NextClient ==
  \/ SupHead
  \/ SupCheck
  \/ ConnectOk
  \/ SupStore
  \/ SupWake
  \/ MasterSend("SceneChange", "Program", Payload("B", 0, "", 0))
  \/ \E s \in 1..Len(rpc) :
        \/ ReaderRecv(s)
        \/ ReaderLost(s)
        \/ ReaderClearSync(s)
        \/ ReaderStatus(s)
  \/ ApplierRecv
  \/ ApplyProject
  \/ ApplyMutate("ok")

\* A reader task forwards message m of the master, whatever the session.
ReaderForward(ty, target, payload) ==
  /\ msgs < MaxMsgs
  /\ msgs' = msgs + 1
  /\ rx' = Append(rx, [session |-> 0, msg |-> SyncMessage(msgs + 1, ty, target, payload, 0)])
  /\ UNCHANGED <<should_reconnect, message_tx, sync_message_tx, reconnection_status,
                 current_attempt, spc, attempt, rpc, dpc, wire, sent, waited, attemptLog>>
  /\ UNCHANGED <<slaveVars, notSlave>>

\* The applier fed with every kind of message and every outcome of the mutation.
NextSlave ==
  \/ \E m \in DownMsgs : ReaderForward(m[1], m[2], m[3])
  \/ ApplierRecv
  \/ ApplyProject
  \/ \E o \in {"noclient", "invalid", "fail", "ok"} : ApplyMutate(o)

\* A StateSync payload with a scene list: one scene, the program scene, with items.
\* An item carries a transform, image data and filters or not (0: null or absent).
SnapshotItem(source, transform, image, filters) ==
  [source_name |-> source, transform |-> transform, image_data |-> image,
   filters |-> filters]

Snapshot(program, preview, items) ==
  [scene_name |-> "", item |-> 0, name |-> "", value |-> 0,
   current_program_scene |-> program, current_preview_scene |-> preview,
   scenes |-> <<[name |-> program, items |-> items]>>]

\* The BC-API mutations of one item, in the order of the walk: transform, image,
\* then per filter its settings and its enabled state.
ItemMutations(item) ==
  (IF item.transform # 0 THEN <<"transform">> ELSE <<>>)
  \o (IF item.image_data # 0 THEN <<"image">> ELSE <<>>)
  \o (IF item.filters # 0 THEN <<"filter_settings", "filter_enabled">> ELSE <<>>)

\* The mutations of a snapshot in walk order: the items of every scene, the program
\* scene, the preview scene.
WalkMutations(payload) ==
  IF "scenes" \notin DOMAIN payload THEN <<>>
  ELSE
    LET ofItem(item) ==
          [k \in 1..Len(ItemMutations(item)) |->
             [kind |-> ItemMutations(item)[k], source |-> item.source_name]]
        ofScene(scene) ==
          LET w[i \in 0..Len(scene.items)] ==
                IF i = 0 THEN <<>> ELSE w[i - 1] \o ofItem(scene.items[i])
          IN w[Len(scene.items)]
        scenes[i \in 0..Len(payload.scenes)] ==
          IF i = 0 THEN <<>> ELSE scenes[i - 1] \o ofScene(payload.scenes[i])
    IN scenes[Len(payload.scenes)]
       \o (IF payload.current_program_scene # ""
             THEN <<[kind |-> "program", source |-> ""]>> ELSE <<>>)
       \o (IF payload.current_preview_scene # ""
             THEN <<[kind |-> "preview", source |-> ""]>> ELSE <<>>)

\* A walk that stops at the first failed mutation.
WalkResultAborting(muts, f) ==
  [i \in 1..Len(muts) |->
     IF \E j \in 1..(i - 1) : f[j] = "fail" THEN "skipped" ELSE f[i]]

\* How the mutations of a walk end when the BC-API answers as f says: every one is
\* attempted, except that a filter's enabled state is set only after its settings
\* were applied.
WalkResult(muts, f) ==
  [i \in 1..Len(muts) |->
     IF muts[i].kind = "filter_enabled" /\ f[i - 1] = "fail" THEN "skipped" ELSE f[i]]

\* A walk that writes its failed scene switches to the log only.
WalkAlertsSilent(payload, muts, result) == <<>>

\* send_alert of a walk: a Warning for a failed program scene switch and for a
\* failed preview scene switch; a failed item mutation is written to stderr only.
WalkAlerts(payload, muts, result) ==
  LET failed(kind) == \E i \in 1..Len(muts) : muts[i].kind = kind /\ result[i] = "fail"
  IN (IF failed("program")
        THEN <<DesyncAlert(payload.current_program_scene, "",
                           "Failed to sync initial scene", "Warning")>>
        ELSE <<>>)
     \o
     (IF failed("preview")
        THEN <<DesyncAlert(payload.current_preview_scene, "",
                           "Failed to sync preview scene", "Warning")>>
        ELSE <<>>)

\* apply_sync_message for a StateSync with a scene list; f is how the BC-API answers
\* each mutation.
ApplyWalk(f) ==
  /\ apc = "mutate"
  /\ "scenes" \in DOMAIN amsg.payload
  /\ \E muts \in {WalkMutations(amsg.payload)} :
       \E result \in {WalkResult(muts, f)} :
         /\ DOMAIN f = 1..Len(muts)
         /\ walked' = [i \in 1..Len(muts) |->
                         Mutation(muts[i].kind, muts[i].source, result[i])]
         /\ alerts' = alerts \o WalkAlerts(amsg.payload, muts, result)
         /\ local_scene' = IF \E i \in 1..Len(muts) :
                                muts[i].kind = "program" /\ result[i] = "ok"
                             THEN amsg.payload.current_program_scene ELSE local_scene
  /\ applyOutcome' = "ok"
  /\ apc' = "recv"
  /\ UNCHANGED <<amsg, expected_state, applied, expected0>>
  /\ UNCHANGED <<tpc, local_state, local_items, ticks>>
  /\ UNCHANGED <<clientVars, serverVars, engineVars, extVars, upVars>>

\* The messages of the applier runs: DownMsgs and a snapshot that places source "S",
\* with a transform, an image and a filter, in its program scene "B".
ApplyMsgs ==
  DownMsgs \cup {<<"StateSync", "Program", Snapshot("B", "A", <<SnapshotItem("S", 1, 1, 1)>>)>>}

\* The applier fed with every kind of message, every outcome of every mutation.
NextApply ==
  \/ \E m \in ApplyMsgs : ReaderForward(m[1], m[2], m[3])
  \/ ApplierRecv
  \/ ApplyProject
  \/ \E o \in {"noclient", "invalid", "fail", "ok"} : ApplyMutate(o)
  \/ \E f \in [1..Len(WalkMutations(amsg.payload)) -> {"ok", "fail"}] : ApplyWalk(f)

\* ------------------------------------------- the slave's application, by content
\* The five scalars apply_transform reads from a payload, and the other fields of a
\* scene item transform (cropping stands for the crop and bounds fields).
TransformScalars == {"position_x", "position_y", "scale_x", "scale_y", "rotation"}
TransformFields == TransformScalars \cup {"width", "height", "cropping"}

\* f32 values are F32Step apart where f64 values are 1 apart.
F32Step == 4

\* `v as f32`: the nearest f32 (here: the f32 at or below).
F32(v) == (v \div F32Step) * F32Step

\* v.as_f64(): Some for a JSON number.
IsNumber(v) == v.k \in {"Int", "Float"}

\* An apply_transform that moves the item by the payload's numbers.
ApplyTransformRelative(current, t) ==
  [fld \in DOMAIN current |->
     IF fld \in TransformScalars /\ fld \in DOMAIN t /\ IsNumber(t[fld])
       THEN current[fld] + F32(t[fld].v) ELSE current[fld]]

\* An apply_transform that resets a scalar the payload does not carry.
ApplyTransformDefaulting(current, t) ==
  [fld \in DOMAIN current |->
     IF fld \in TransformScalars
       THEN IF fld \in DOMAIN t /\ IsNumber(t[fld]) THEN F32(t[fld].v) ELSE 0
       ELSE current[fld]]

\* apply_transform: the transform SetTransform carries is the current one with each
\* of the five scalars replaced by the payload's number, if the payload has one.
ApplyTransform(current, t) ==
  [fld \in DOMAIN current |->
     IF fld \in TransformScalars /\ fld \in DOMAIN t /\ IsNumber(t[fld])
       THEN F32(t[fld].v) ELSE current[fld]]

\* set_settings with overlay: Some(true): the given keys replace, the others stay.
Overlay(settings, given) ==
  [key \in DOMAIN settings \cup DOMAIN given |->
     IF key \in DOMAIN given THEN given[key] ELSE settings[key]]

\* The state of the application as the BC-API shows it, the program scene apart
\* (local_scene): preview scene, transform of item 1, filter and image of source "S".
ObsState(preview, transform, settings, enabled, image) ==
  [preview |-> preview, transform |-> transform, filter_settings |-> settings,
   filter_enabled |-> enabled, image |-> image]

LocalTransform ==
  [fld \in TransformFields |-> IF fld \in {"scale_x", "scale_y"} THEN 100 ELSE 8]

InitBc ==
  /\ obs = ObsState("A", LocalTransform, [radius |-> 1, tint |-> 2], TRUE,
                    [file |-> 0, data |-> "old"])
  /\ cache_files = 0
  /\ sync_in = EmptyPayload
  /\ answers = <<>>
  /\ obs_log = <<>>

\* A member of a payload that is null or absent: as_object() and as_array() are None.
NoObject == [null |-> TRUE]

\* An item of a snapshot with its content: the transform object, the image_data
\* object {file, data} and the one filter {settings, enabled}, or NoObject.
SnapshotItemOf(source, transform, image, filter) ==
  [source_name |-> source,
   transform |-> IF transform = NoObject THEN 0 ELSE 1,
   image_data |-> IF image = NoObject THEN 0 ELSE 1,
   filters |-> IF filter = NoObject THEN 0 ELSE 1,
   transform_obj |-> transform, image_obj |-> image, filter_obj |-> filter]

\* The effect of one successful mutation of a snapshot on the application.
Mutated(state, payload, mut) ==
  LET item == CHOOSE it \in {payload.scenes[1].items[i] :
                               i \in 1..Len(payload.scenes[1].items)} :
                 it.source_name = mut.source
  IN CASE mut.kind = "transform" ->
            [state EXCEPT !.obs.transform = ApplyTransform(@, item.transform_obj)]
       [] mut.kind = "image" ->
            [state EXCEPT !.cache = @ + 1,
                          !.obs.image = [file |-> state.cache + 1,
                                         data |-> item.image_obj.data]]
       [] mut.kind = "filter_settings" ->
            [state EXCEPT !.obs.filter_settings = Overlay(@, item.filter_obj.settings)]
       [] mut.kind = "filter_enabled" ->
            [state EXCEPT !.obs.filter_enabled = item.filter_obj.enabled]
       [] mut.kind = "program" ->
            [state EXCEPT !.program = payload.current_program_scene]
       [] OTHER ->
            [state EXCEPT !.obs.preview = payload.current_preview_scene]

\* The application after the walk of a snapshot whose mutations ended as result says.
RECURSIVE Walked(_, _, _, _, _)
Walked(state, payload, muts, result, n) ==
  IF n = 0 THEN state
  ELSE LET before == Walked(state, payload, muts, result, n - 1)
       IN IF result[n] = "ok" THEN Mutated(before, payload, muts[n]) ELSE before

\* apply_sync_message for the StateSync sync_in: the projection, the walk with the
\* BC-API answering as `answers` says, the alerts.
ApplyStateSync ==
  /\ "scenes" \in DOMAIN sync_in
  /\ Len(obs_log) < MaxApplies
  /\ \E muts \in {WalkMutations(sync_in)} :
       \E result \in {WalkResult(muts, answers)} :
         \E after \in {Walked([program |-> local_scene, obs |-> obs, cache |-> cache_files],
                              sync_in, muts, result, Len(muts))} :
           /\ local_scene' = after.program
           /\ obs' = after.obs
           /\ cache_files' = after.cache
           /\ alerts' = alerts \o WalkAlerts(sync_in, muts, result)
           /\ expected_state' =
                UpdateExpectedState(expected_state, [type |-> "StateSync", payload |-> sync_in])
           /\ obs_log' = Append(obs_log, [program |-> after.program, obs |-> after.obs,
                                          expected |-> expected_state'])
  /\ UNCHANGED <<sync_in, answers>>
  /\ UNCHANGED <<apc, amsg, applied, expected0, applyOutcome, walked>>
  /\ UNCHANGED <<tpc, local_state, local_items, ticks>>
  /\ UNCHANGED <<clientVars, serverVars, engineVars, upVars, appVars, clockVars, codecVars, convVars>>

\* apply_sync_message for the TransformUpdate sync_in: the item's transform is
\* rewritten if the payload has a transform object and the BC-API calls succeed; a
\* failure sends a Warning. The projection ignores a TransformUpdate.
ApplyTransformUpdate ==
  /\ "transform" \in DOMAIN sync_in
  /\ Len(obs_log) < MaxApplies
  /\ IF sync_in.transform = NoObject
       THEN UNCHANGED <<obs, alerts>>
       ELSE IF answers[1] = "ok"
         THEN /\ obs' = [obs EXCEPT !.transform = ApplyTransform(@, sync_in.transform)]
              /\ UNCHANGED alerts
         ELSE /\ alerts' = Append(alerts, DesyncAlert(sync_in.scene_name, "",
                                                      "Failed to update transform", "Warning"))
              /\ UNCHANGED obs
  /\ obs_log' = Append(obs_log, [program |-> local_scene, obs |-> obs',
                                 expected |-> expected_state])
  /\ UNCHANGED <<cache_files, sync_in, answers>>
  /\ UNCHANGED <<apc, amsg, expected_state, local_scene, applied, expected0, applyOutcome,
                 walked>>
  /\ UNCHANGED <<tpc, local_state, local_items, ticks>>
  /\ UNCHANGED <<clientVars, serverVars, engineVars, upVars, appVars, clockVars, codecVars, convVars>>

\* The transform objects of the runs: every set of fields with numbers, and objects
\* whose position_x is not a number.
PayloadNumber(fld) ==
  IF fld \in {"position_x", "width"} THEN VFloat(13)
  ELSE IF fld \in {"scale_x", "scale_y"} THEN VInt(50) ELSE VFloat(22)

TransformObjects ==
  {[fld \in D |-> PayloadNumber(fld)] : D \in SUBSET TransformFields}
  \cup {[position_x |-> VString("13"), rotation |-> VFloat(22)],
        [position_x |-> VNull, width |-> VFloat(13)]}

\* The transforms an item of the application may have before a message is applied.
ItemTransforms ==
  {LocalTransform, [fld \in TransformFields |-> IF fld = "cropping" THEN 0 ELSE 12]}

\* The TransformUpdate payloads of the runs.
TransformInputs ==
  {[scene_name |-> "A", scene_item_id |-> 1, transform |-> t] :
     t \in TransformObjects \cup {NoObject}}

\* The snapshots of the runs: source "S" in program scene "B", with or without a
\* transform, an image, a filter; with or without a preview scene.
SnapshotInputs ==
  {Snapshot("B", preview, <<SnapshotItemOf("S", t, i, f)>>) :
     preview \in {"", "A", "C"},
     t \in {NoObject, [fld \in TransformScalars |-> PayloadNumber(fld)],
            [position_x |-> VFloat(13), width |-> VFloat(13)]},
     i \in {NoObject, [file |-> "logo.png", data |-> "new"]},
     f \in {NoObject, [settings |-> [radius |-> 5], enabled |-> FALSE],
            [settings |-> [radius |-> 1, tint |-> 7], enabled |-> TRUE]}}

InitBcInputs(inputs) ==
  /\ InitServer /\ InitEngine /\ InitClient /\ InitSlave /\ InitUp /\ InitDrift
  /\ InitApp /\ InitClock /\ InitCodec /\ InitMaster
  /\ \E t \in ItemTransforms, enabled \in BOOLEAN :
       obs = ObsState("A", t, [radius |-> 1, tint |-> 2], enabled,
                      [file |-> 0, data |-> "old"])
  /\ cache_files = 0
  /\ sync_in \in inputs
  /\ answers \in [1..(IF "scenes" \in DOMAIN sync_in
                        THEN Len(WalkMutations(sync_in)) ELSE 1) -> {"ok", "fail"}]
  /\ obs_log = <<>>

InitStateSyncs == InitBcInputs(SnapshotInputs)

InitTransformUpdates == InitBcInputs(TransformInputs)

\* --------------------------------------------------- master to slave, end to end
\* The operator of the master changes the program scene; the BC-API event handler
\* forwards the SceneChanged event to the consumer.
MasterEvent(e) ==
  /\ events < MaxEvents
  /\ events' = events + 1
  /\ obs_event_rx' = Append(obs_event_rx, e)
  /\ UNCHANGED <<active_targets, epc, ev, fetchTasks, spawned, evLog, held>>
  /\ UNCHANGED <<sync_rx, produced>>
  /\ UNCHANGED <<serverButChannel, clientVars, slaveVars, upVars, driftVars>>
  /\ UNCHANGED <<appVars, clockVars, codecVars, bcVars>>

MasterSwitch(scene) ==
  /\ scene # m_scene
  /\ m_scene' = scene
  /\ MasterEvent(Event("SceneChanged", scene, 0, ""))
  /\ UNCHANGED <<m_preview, m_xform>>

\* The operator changes the preview scene (studio mode).
MasterPreview(scene) ==
  /\ scene # m_preview
  /\ m_preview' = scene
  /\ MasterEvent(Event("CurrentPreviewSceneChanged", scene, 0, ""))
  /\ UNCHANGED <<m_scene, m_xform>>

\* The positions the operator moves item 1 of scene "A" to: f32 values.
MasterPositions == {F32Step * k : k \in 1..3}

MasterMove(x) ==
  /\ x # m_xform
  /\ m_xform' = x
  /\ MasterEvent(Event("SceneItemTransformChanged", "A", 1, ""))
  /\ UNCHANGED <<m_scene, m_preview>>

\* The transform of the master's item, position_x apart as in LocalTransform.
MasterTransform(x) == [LocalTransform EXCEPT !.position_x = x]

\* The "transform" object of a TransformUpdate: seven numbers.
TransformJson(t) ==
  [fld \in TransformScalars \cup {"width", "height"} |-> VFloat(t[fld])]

\* client.scene_items().transform(scene_id, scene_item_id).await
ReadTransform(x) == MasterTransform(x)

\* The transform read of a detail-fetch task returns.
TransformRead(t) ==
  /\ t \in fetchTasks
  /\ t.ev.kind = "SceneItemTransformChanged"
  /\ t.n \notin DOMAIN held
  /\ held' = Insert(held, t.n, ReadTransform(m_xform))
  /\ UNCHANGED <<m_scene, m_preview, m_xform>>
  /\ UNCHANGED <<engineVars, serverVars, clientVars, slaveVars, upVars, driftVars>>
  /\ UNCHANGED <<appVars, clockVars, codecVars, bcVars>>

\* The task builds its TransformUpdate from what it read and sends it.
TransformSend(t) ==
  /\ t \in fetchTasks
  /\ t.n \in DOMAIN held
  /\ Send(SyncMessage(produced + 1, "TransformUpdate", "Source",
                      [scene_name |-> t.ev.scene_name, scene_item_id |-> t.ev.item,
                       transform |-> TransformJson(held[t.n])], 0))
  /\ fetchTasks' = fetchTasks \ {t}
  /\ held' = Remove(held, t.n)
  /\ UNCHANGED <<m_scene, m_preview, m_xform>>
  /\ UNCHANGED <<active_targets, obs_event_rx, epc, ev, events, spawned, evLog>>
  /\ UNCHANGED <<serverButChannel, clientVars, slaveVars, upVars, driftVars>>
  /\ UNCHANGED <<appVars, clockVars, codecVars, bcVars>>

\* One connection from the outbound channel to the applier: the broadcast task hands
\* the message to the client's channel, the send task writes it, the slave's reader
\* parses it and forwards it. Every stage keeps the order.
Deliver ==
  /\ sync_rx # <<>>
  /\ sync_rx' = Tail(sync_rx)
  /\ rx' = Append(rx, [session |-> 1, msg |-> Head(sync_rx)])
  /\ UNCHANGED <<should_reconnect, message_tx, sync_message_tx, reconnection_status,
                 current_attempt, spc, attempt, rpc, dpc, wire, msgs, sent, waited,
                 attemptLog>>
  /\ UNCHANGED <<serverButChannel, produced, engineVars, slaveVars, upVars, driftVars, extVars>>

\* apply_sync_message after the projection update, every BC-API call succeeding: a
\* SceneChange sets the program scene, a TransformUpdate rewrites the item's transform.
ApplyOk ==
  /\ apc = "mutate"
  /\ local_scene' = SceneAfter(amsg, local_scene)
  /\ obs' = IF amsg.type = "TransformUpdate"
              THEN [obs EXCEPT !.transform = ApplyTransform(@, amsg.payload.transform)]
              ELSE obs
  /\ applyOutcome' = "ok"
  /\ walked' = <<Mutation(MutationKind(amsg), "", "ok")>>
  /\ apc' = "recv"
  /\ UNCHANGED <<amsg, expected_state, applied, expected0>>
  /\ UNCHANGED <<cache_files, sync_in, answers, obs_log>>
  /\ UNCHANGED <<clientVars, serverVars, engineVars, upVars, driftVars>>
  /\ UNCHANGED <<appVars, clockVars, codecVars, convVars>>

\* The target selections that contain Program and Source.
ConvergeTargets == {{"Program", "Source"}, {"Program", "Preview", "Source"}}

\* A master and a connected slave that show the same scene and the same transform.
InitConverge ==
  /\ InitServer /\ InitClient /\ InitSlave /\ InitUp /\ InitDrift
  /\ InitApp /\ InitClock /\ InitCodec /\ InitBc
  /\ active_targets \in ConvergeTargets
  /\ obs_event_rx = <<>>
  /\ epc = "recv"
  /\ ev = NoEvent
  /\ fetchTasks = {}
  /\ events = 0
  /\ spawned = 0
  /\ evLog = {}
  /\ InitMaster

\* Scene changes of the master's operator, through to the slave's application.
NextScenes ==
  \/ \E scene \in Scenes : MasterSwitch(scene)
  \/ \E scene \in Scenes : MasterPreview(scene)
  \/ EngineRecv
  \/ EngineDispatch
  \/ Deliver
  \/ ApplierRecv
  \/ ApplyProject
  \/ ApplyOk

\* Moves of one scene item, through to the slave's application.
NextMoves ==
  \/ \E x \in MasterPositions : MasterMove(x)
  \/ EngineRecv
  \/ EngineDispatch
  \/ \E t \in fetchTasks : TransformRead(t)
  \/ \E t \in fetchTasks : TransformSend(t)
  \/ Deliver
  \/ ApplierRecv
  \/ ApplyProject
  \/ ApplyOk

\* The supervisor with connection failures, connection losses and disconnect().
NextSupervisor ==
  \/ SupHead
  \/ SupSleep
  \/ SupCheck
  \/ ConnectOk
  \/ ConnectFail
  \/ SupStore
  \/ SupWake
  \/ \E s \in 1..Len(rpc) :
        \/ ReaderLost(s)
        \/ ReaderClearSync(s)
        \/ ReaderStatus(s)
  \/ DisconnectSignal
  \/ DisconnectStatus
  \/ DisconnectClearTx
  \/ DisconnectClearSync

\* ------------------------------------------------------------ claims: engine
\* The step places a message on the outbound channel.
Enqueued == produced' = produced + 1
NewMsg == sync_rx'[Len(sync_rx')]

\* C7 (Target filtering): every message placed on the outbound channel, the
\* StateSync snapshot included, has a target_type that is in active_targets
\* when it is placed.
C7_TargetFiltering ==
  [][Enqueued => NewMsg.target_type \in active_targets]_vars

\* C8 (Program only): with active_targets = {Program}, dispatching an
\* InputSettingsChanged event places no message and spawns no fetch, and
\* dispatching a program scene change places exactly one SceneChange message
\* with target_type Program that carries the event's scene_name.
C8_ProgramOnly ==
  [][(EngineDispatch /\ active_targets = {"Program"}) =>
       /\ ev.kind = "InputSettingsChanged" =>
            /\ sync_rx' = sync_rx
            /\ fetchTasks' = fetchTasks
       /\ ev.kind = "SceneChanged" =>
            /\ Len(sync_rx') = Len(sync_rx) + 1
            /\ SubSeq(sync_rx', 1, Len(sync_rx)) = sync_rx
            /\ NewMsg.type = "SceneChange"
            /\ NewMsg.target_type = "Program"
            /\ NewMsg.payload.scene_name = ev.scene_name]_vars

\* Both cases of C8 were dispatched under {Program}; the scene change was "B".
C8_Witness ==
  /\ [kind |-> "InputSettingsChanged", targets |-> {"Program"}] \in evLog
  /\ [kind |-> "SceneChanged", targets |-> {"Program"}] \in evLog
  /\ \E i \in 1..Len(sync_rx) : sync_rx[i].payload.scene_name = "B"
  /\ fetchTasks = {}

\* ------------------------------------------------------------ claims: server
\* The ids of the text frames of a channel log, in enqueue order.
TextIds(log) ==
  LET texts == SelectSeq(log, LAMBDA f : f.kind = "Text")
  IN  [i \in 1..Len(texts) |-> texts[i].msg.id]

RECURSIVE IsSubSeq(_, _)
IsSubSeq(a, b) ==
  IF a = <<>> THEN TRUE
  ELSE IF b = <<>> THEN FALSE
  ELSE IF Head(a) = Head(b) THEN IsSubSeq(Tail(a), Tail(b))
  ELSE IsSubSeq(a, Tail(b))

DrainStep == bpc = "recv" /\ sync_rx # <<>> /\ sync_rx' = Tail(sync_rx)
FanOutStep == bpc = "fanout" /\ bpc' = "recv"

\* Every client's text frames follow the drain order, each drained message at most once.
FramesInDrainOrder == \A c \in Clients : IsSubSeq(TextIds(out_channel[c]), drained)

\* C1 as stated: every message drained while clients are registered is fanned out, each
\* client registered at the moment of the drain gets exactly one copy enqueued, and
\* every client's frames are in drain order.
C1_FanOutAtDrain ==
  /\ []FramesInDrainOrder
  /\ [][/\ (DrainStep /\ clients # {}) => bpc' = "fanout"
        /\ FanOutStep => \A c \in atDrain :
                            out_channel'[c] = Append(out_channel[c], TextFrame(bmsg))]_vars

\* C1 amended: a message drained while shutdown is unset is enqueued exactly once on the
\* out_channel of every client that is in `clients` with an open channel when the
\* broadcast task reads the registry for it, and on no other; every client's frames are
\* in drain order.
C1_FanOutAtRegistryRead ==
  /\ []FramesInDrainOrder
  /\ [][/\ (DrainStep /\ ~shutdown) => bpc' = "fanout"
        /\ FanOutStep => \A c \in Clients :
                            out_channel'[c] = IF c \in clients /\ ChannelOpen(c)
                                                THEN Append(out_channel[c], TextFrame(bmsg))
                                                ELSE out_channel[c]]_vars

\* Two clients hold a copy of the same message and one of them holds two messages.
C1_Witness ==
  \E c \in Clients : \E d \in Clients \ {c} :
    /\ Len(TextIds(out_channel[c])) >= 2
    /\ \E i \in 1..Len(TextIds(out_channel[c])), j \in 1..Len(TextIds(out_channel[d])) :
         TextIds(out_channel[c])[i] = TextIds(out_channel[d])[j]

\* C2 as stated: in every reachable state every key of `clients` is a key of
\* client_info, and a client whose session has ended is in none of the three maps.
C2_RosterConsistent ==
  /\ clients \subseteq DOMAIN client_info
  /\ \A c \in Clients :
       hpc[c] = "closed" =>
         c \notin clients /\ c \notin DOMAIN client_info /\ c \notin DOMAIN slave_statuses

\* C9: the callback has run once for a connection whose handshake succeeded and that
\* reached the callback, once more per StateSyncRequest received, and never otherwise
\* (not for a failed handshake, not for any other frame).
C9_CallbackInvocations ==
  \A c \in Clients :
    cbCount[c] = (IF hpc[c] \in {"reading", "rmInfo", "rmStatus", "closed"} THEN 1 ELSE 0)
                 + reqCount[c]

\* One client connected and sent a StateSyncRequest (two invocations); another
\* client's handshake failed (none).
C9_Witness ==
  \E c \in Clients : \E d \in Clients \ {c} :
    /\ reqCount[c] = 1 /\ cbCount[c] = 2
    /\ hpc[d] = "failed" /\ cbCount[d] = 0

\* ------------------------------------------------------------ claims: resync
\* StateSync frames enqueued for client c that its own callback invocations built.
Delivered(c) ==
  Len(SelectSeq(out_channel[c],
                LAMBDA f : f.kind = "Text" /\ f.msg.type = "StateSync" /\ f.msg.origin = c))

\* The client's session is over or its writer has failed.
Gone(c) == c \notin clients \/ ~ChannelOpen(c)

\* C10 as stated: every successful connection and every StateSyncRequest (the k-th
\* callback invocation for client c) is eventually followed by a fresh StateSync
\* enqueued for that client.
C10_ResyncDelivered ==
  \A c \in Clients : \A k \in 1..(MaxRequests + 1) :
    (cbCount[c] >= k) ~> (Delivered(c) >= k)

\* C10 amended: ... enqueued for that client, unless the client has left the
\* registry or its writer has failed before the fan-out.
C10_ResyncDeliveredOrGone ==
  \A c \in Clients : \A k \in 1..(MaxRequests + 1) :
    (cbCount[c] >= k) ~> (Delivered(c) >= k \/ Gone(c))

\* A connected client got the snapshot for its connection and for its request.
C10_Witness ==
  \E c \in Requesters :
    /\ reqCount[c] = 1 /\ cbCount[c] = 2 /\ Delivered(c) = 2
    /\ ~Gone(c)

\* ------------------------------------------------------------ claims: slave
IsPrefix(a, b) == Len(a) <= Len(b) /\ SubSeq(b, 1, Len(a)) = a

\* The ids the applier took from session s, in the order it took them.
AppliedOf(s) ==
  LET own == SelectSeq(applied, LAMBDA e : e.session = s)
  IN  [i \in 1..Len(own) |-> own[i].id]

\* C3 (Apply-order) as stated: what the applier processes is, session by session, a
\* prefix of what the master produced for that session, and over the whole run no
\* message is processed twice or out of the master's production order.
C3_ApplyOrder ==
  /\ \A s \in 1..Len(sent) : IsPrefix(AppliedOf(s), sent[s])
  /\ \A i \in 1..Len(applied) : \A j \in 1..Len(applied) :
       i < j => applied[i].id < applied[j].id

\* The projection reflects message m, starting from projection old.
Reflects(exp, old, m) ==
  IF m.type = "SceneChange" /\ m.payload.scene_name # ""
    THEN exp = [current_scene |-> m.payload.scene_name]
    ELSE IF m.type = "StateSync" /\ m.payload.current_program_scene # ""
      THEN exp = [current_scene |-> m.payload.current_program_scene]
      ELSE exp = old

\* C4 (Projection-before-apply): when the BC-API mutation for a message is about to
\* be attempted the projection already reflects that message, and it still does
\* after the mutation has succeeded, failed or could not be attempted.
C4_ProjectionBeforeApply ==
  (apc = "mutate" \/ (apc = "recv" /\ applyOutcome # "none"))
    => Reflects(expected_state, expected0, amsg)

\* A scene change that could not be applied (no BC-API session) changed the
\* projection and not the local scene.
C4_Witness ==
  /\ applyOutcome = "noclient"
  /\ amsg.type = "SceneChange"
  /\ expected0.current_scene # "B"
  /\ expected_state.current_scene = "B"
  /\ local_scene # "B"

\* The wait the back-off rule prescribes before an attempt made with counter i.
BackoffSeconds(i) ==
  IF i = 0 THEN 0 ELSE <<1, 2, 4, 8, 16, 30, 30, 30, 30, 30>>[i]

\* A connection attempt completes (successfully or not).
AttemptStep == spc = "connect" /\ spc' # "connect"

\* C5 (Back-off delay) as stated: an attempt made with counter i >= 1 was preceded
\* by a wait of exactly min(2^(i-1), 30) seconds, one made with counter 0 by no wait.
C5_BackoffDelay ==
  [][AttemptStep => waited = BackoffSeconds(attempt)]_vars

\* No connection ever succeeded and disconnect() was not called.
Unreachable == Len(rpc) = 0 /\ dpc = "idle"

\* C6 (Supervisor termination): with the master unreachable the waits before the
\* attempts are 0, 1, 2, 4, ... (capped at 30), the supervisor stops after exactly
\* max_reconnect_attempts attempts with status {is_reconnecting = false, last_error =
\* "Max reconnection attempts (N) reached"}, once stopped it never attempts again,
\* and a successful connection resets the counter to 0.
C6_SupervisorTermination ==
  /\ [](Unreachable =>
          /\ IsPrefix(attemptLog, <<0, 1, 2, 4, 8, 16, 30, 30, 30, 30>>)
          /\ Len(attemptLog) = attempt
          /\ spc = "exhausted" =>
               /\ Len(attemptLog) = max_reconnect_attempts
               /\ reconnection_status.is_reconnecting = FALSE
               /\ reconnection_status.last_error = "MaxAttempts")
  /\ [](spc = "exhausted" => attempt = max_reconnect_attempts)
  /\ [][spc = "exhausted" => spc' = "exhausted"]_vars
  /\ [][(spc = "connect" /\ spc' = "store") => attempt' = 0]_vars

\* The supervisor gave up on a master that was never reachable.
C6_Witness ==
  /\ Unreachable
  /\ spc = "exhausted"
  /\ attemptLog = <<0, 1, 2, 4, 8, 16, 30, 30, 30, 30>>

\* ------------------------------------------------- C11: explicit resync request
\* The upstream path of one slave: the supervisor connecting and reconnecting, the
\* reader tasks losing their connection, the user calling request_resync() and the
\* send task.
NextUpstream ==
  \/ SupHead
  \/ SupCheck
  \/ ConnectOk
  \/ SupStore
  \/ SupWake
  \/ \E s \in 1..Len(rpc) : ReaderLost(s) \/ ReaderClearSync(s) \/ ReaderStatus(s)
  \/ RequestResync
  \/ UpTakeSender
  \/ \E ok \in BOOLEAN : UpTakeMsg(ok)

\* The ids of the requests still queued and of those written to a connection.
Queued == {send_rx[i].id : i \in 1..Len(send_rx)}
Transmitted == {up_sent[i].msg.id : i \in 1..Len(up_sent)}

\* C11: a request for which request_resync() returned Ok is not lost inside the
\* slave: it is still queued for the send task, or it was written to a connection
\* (or the write itself reported an error).
C11_ResyncTransmitted ==
  \A n \in 1..accepted : n \in Queued \cup Transmitted \cup up_failed

\* ------------------------------------------------------ C12: drift tick output
\* A connected slave: messages of the master reach the applier, the operator of the
\* slave's application switches scenes, and the periodic task ticks.
NextDrift ==
  \/ \E m \in DownMsgs : ReaderForward(m[1], m[2], m[3])
  \/ ApplierRecv
  \/ ApplyProject
  \/ \E o \in {"noclient", "invalid", "fail", "ok"} : ApplyMutate(o)
  \/ \E scene \in Scenes : OperatorSwitch(scene)
  \/ \E ok \in BOOLEAN : TickSample(ok)
  \/ TickReport

\* The step in which the periodic task, holding a sample, reads the projection.
TickStep == tpc = "compare" /\ tpc' = "tick"

\* The messages and alerts a step added.
NewUp == SubSeq(send_rx', Len(send_rx) + 1, Len(send_rx'))
NewAlerts == SubSeq(alerts', Len(alerts) + 1, Len(alerts'))

\* C12: a tick that sampled the local state while the projection is non-empty
\* enqueues exactly one StateReport upstream, with is_synced true exactly when the
\* difference list is empty and one desync_details entry per difference, and sends
\* exactly one alert per difference, Error for a Critical difference and Warning
\* otherwise; with an empty projection it enqueues no report and sends no alert.
C12_TickOutput ==
  [][TickStep =>
       IF expected_state.current_scene = ""
         THEN send_rx' = send_rx /\ alerts' = alerts
         ELSE LET diffs == DetectDifferences(local_state, expected_state)
              IN /\ Len(send_rx') = Len(send_rx) + 1
                 /\ SubSeq(send_rx', 1, Len(send_rx)) = send_rx
                 /\ NewUp[1].type = "StateReport"
                 /\ NewUp[1].payload.is_synced = (Len(diffs) = 0)
                 /\ Len(NewUp[1].payload.desync_details) = Len(diffs)
                 /\ \A i \in 1..Len(diffs) :
                      NewUp[1].payload.desync_details[i].category = diffs[i].category
                 /\ SubSeq(alerts', 1, Len(alerts)) = alerts
                 /\ Len(NewAlerts) = Len(diffs)
                 /\ \A i \in 1..Len(diffs) :
                      /\ NewAlerts[i].message = diffs[i].description
                      /\ NewAlerts[i].severity =
                           (IF diffs[i].severity = "Critical" THEN "Error" ELSE "Warning")]_vars

\* A tick found one difference: one report with is_synced false and one Error alert.
C12_Witness ==
  /\ tpc = "tick"
  /\ ticks = 1
  /\ Len(send_rx) = 1
  /\ send_rx[1].type = "StateReport"
  /\ ~send_rx[1].payload.is_synced
  /\ Len(send_rx[1].payload.desync_details) = 1
  /\ Len(alerts) = 1
  /\ alerts[1].severity = "Error"

\* ------------------------------------------------- the diff engine on its own
\* The inputs of detect_differences: local states and expected states with and
\* without the keys it reads.
Transform(px, py, sx, sy) ==
  [position_x |-> px, position_y |-> py, scale_x |-> sx, scale_y |-> sy]

LocalTransforms == {EmptyMap, Transform(0, 0, 100, 100), Transform(51, 0, 102, 100)}

ExpectedTransforms ==
  {Transform(px, py, sx, sy) :
     px \in {0, 50, 51}, py \in {0, 51}, sx \in {100, 101, 102}, sy \in {100, 102}}
  \cup {EmptyMap}

LocalSources ==
  {[name |-> "S", transform |-> t] : t \in LocalTransforms} \cup {[name |-> "S"]}

ExpectedSources ==
  {[name |-> n, transform |-> t] : n \in {"S", "T"}, t \in ExpectedTransforms}
  \cup {[name |-> n] : n \in {"S", "T"}}

SeqsUpTo(S, n) == UNION {[1..k -> S] : k \in 0..n}

LocalStates ==
  {[current_scene |-> c, sources |-> src] :
     c \in Scenes, src \in SeqsUpTo(LocalSources, MaxSources)}
  \cup {[current_scene |-> c] : c \in Scenes}

ExpectedStates ==
  {[current_scene |-> "A", sources |-> src] : src \in SeqsUpTo(ExpectedSources, MaxSources)}
  \cup {[sources |-> src] : src \in SeqsUpTo(ExpectedSources, MaxSources)}
  \cup {[current_scene |-> "A"], [current_scene |-> ""], EmptyMap}

\* The periodic task holds a sample and is about to read the projection.
InitDiff ==
  /\ InitServer /\ InitEngine /\ InitClient /\ InitUp /\ InitApp /\ InitClock
  /\ InitCodec /\ InitBc /\ InitMaster
  /\ apc = "recv"
  /\ amsg = NoMsg
  /\ expected_state \in ExpectedStates
  /\ expected0 = [current_scene |-> ""]
  /\ local_scene = "A"
  /\ applied = <<>>
  /\ applyOutcome = "none"
  /\ walked = <<>>
  /\ tpc = "compare"
  /\ local_state \in LocalStates
  /\ alerts = <<>>
  /\ local_items = <<>>
  /\ ticks = 1

NextDiff == TickReport

\* The differences the tick reported: the desync_details of its report.
Reported == IF send_rx = <<>> THEN <<>> ELSE send_rx[1].payload.desync_details
Compared == tpc = "tick" /\ send_rx # <<>>

ReportedScene ==
  {i \in 1..Len(Reported) : Reported[i].category = "SceneMismatch"}

\* C13: the tick reports a SceneMismatch, of severity Critical and only one, exactly
\* when the projection's current_scene is non-empty and differs from the sampled
\* program scene; with "A" expected and "B" sampled the report has is_synced false
\* and the tick sends one Error alert.
C13_SceneDrift ==
  Compared =>
    LET sampled == IF "current_scene" \in DOMAIN local_state
                     THEN local_state.current_scene ELSE ""
        projected == IF "current_scene" \in DOMAIN expected_state
                       THEN expected_state.current_scene ELSE ""
    IN /\ (ReportedScene # {}) <=> (projected # "" /\ projected # sampled)
       /\ Cardinality(ReportedScene) <= 1
       /\ \A i \in ReportedScene : Reported[i].severity = "Critical"
       /\ (projected = "A" /\ sampled = "B") =>
            /\ ~send_rx[1].payload.is_synced
            /\ Cardinality({i \in 1..Len(alerts) : alerts[i].severity = "Error"}) = 1

\* "A" was expected and "B" sampled: the only difference is the scene.
C13_Witness ==
  /\ Compared
  /\ expected_state = [current_scene |-> "A"]
  /\ local_state.current_scene = "B"
  /\ Len(Reported) = 1
  /\ Reported[1].category = "SceneMismatch"
  /\ Len(alerts) = 1
  /\ alerts[1].severity = "Error"
  /\ ~send_rx[1].payload.is_synced

\* C14: once a SceneChange to X has been applied successfully (the projection and
\* the local program scene are both X) and the local scene is left alone, the tick
\* that samples the local state reports is_synced = true and sends no alert.
C14_SceneChangeSynced ==
  [][(/\ TickStep
      /\ apc = "recv" /\ amsg.type = "SceneChange" /\ applyOutcome = "ok"
      /\ expected_state.current_scene = amsg.payload.scene_name
      /\ local_scene = amsg.payload.scene_name
      /\ local_state = GetCurrentObsState(local_scene, local_items))
       => /\ Len(NewUp) = 1
          /\ NewUp[1].payload.is_synced
          /\ alerts' = alerts]_vars

\* ---------------------------------------------------- C15: source drift
\* A connected slave that receives snapshots with a scene list, and the periodic task.
NextSourceDrift ==
  \/ \E m \in ApplyMsgs \ DownMsgs : ReaderForward(m[1], m[2], m[3])
  \/ ApplierRecv
  \/ ApplyProject
  \/ ApplyMutate("noclient")
  \/ \E f \in [1..Len(WalkMutations(amsg.payload)) -> {"ok", "fail"}] : ApplyWalk(f)
  \/ \E scene \in Scenes : OperatorSwitch(scene)
  \/ \E ok \in BOOLEAN : TickSample(ok)
  \/ TickReport

\* The sources the snapshot payload places in its program scene.
PlacedInProgram(payload) ==
  UNION {{payload.scenes[i].items[j].source_name : j \in 1..Len(payload.scenes[i].items)} :
           i \in {k \in 1..Len(payload.scenes) :
                    payload.scenes[k].name = payload.current_program_scene}}

\* C15: when the last message applied is a StateSync that placed source S in the
\* current program scene and the sampled local scene has no source named S, the tick
\* reports a SourceMissing difference of severity Warning for S, and is_synced false.
C15_SourceMissingReported ==
  [][(/\ TickStep
      /\ apc = "recv" /\ amsg.type = "StateSync" /\ applyOutcome = "ok"
      /\ "scenes" \in DOMAIN amsg.payload)
       => \A S \in PlacedInProgram(amsg.payload) :
            (\A i \in 1..Len(local_state.sources) : local_state.sources[i].name # S)
              => /\ Len(NewUp) = 1
                 /\ ~NewUp[1].payload.is_synced
                 /\ \E i \in 1..Len(NewUp[1].payload.desync_details) :
                      /\ NewUp[1].payload.desync_details[i].category = "SourceMissing"
                      /\ NewUp[1].payload.desync_details[i].source_name = S
                      /\ NewUp[1].payload.desync_details[i].severity = "Warning"]_vars

\* The pairs the diff engine compares for source name n: an expected source named n
\* that has a transform, and the first local source of that name, if it has one too.
Pairs(n) ==
  IF "sources" \in DOMAIN local_state /\ "sources" \in DOMAIN expected_state
    THEN {<<l, e>> \in (1..Len(local_state.sources)) \X (1..Len(expected_state.sources)) :
            /\ expected_state.sources[e].name = n
            /\ local_state.sources[l].name = n
            /\ \A k \in 1..(l - 1) : local_state.sources[k].name # n
            /\ "transform" \in DOMAIN local_state.sources[l]
            /\ "transform" \in DOMAIN expected_state.sources[e]}
    ELSE {}

\* |local - expected| of field f for the pair p, in hundredths; d is the value of a
\* field the transform lacks.
Delta(p, f, d) ==
  LET lt == local_state.sources[p[1]].transform
      et == expected_state.sources[p[2]].transform
      lv == IF f \in DOMAIN lt THEN lt[f] ELSE d
      xv == IF f \in DOMAIN et THEN et[f] ELSE d
  IN IF lv >= xv THEN lv - xv ELSE xv - lv

ReportedTransform(n, text) ==
  {i \in 1..Len(Reported) :
     /\ Reported[i].category = "TransformMismatch"
     /\ Reported[i].source_name = n
     /\ Reported[i].description = text}

Unparseable == {"Garbage", "UnknownType"}

\* One slave connection seen from both ends: the master's handler for it, reading
\* well-formed and unparseable frames, and the slave's reader task and applier,
\* reading what the master sends.
NextProtocol ==
  \/ Accept(1)
  \/ HandshakeOk(1)
  \/ RegisterInfo(1)
  \/ \E k \in Unparseable \cup {"StateSyncRequest", "StateReport"} : RecvFrame(1, k, FALSE)
  \/ SupHead
  \/ SupCheck
  \/ ConnectOk
  \/ SupStore
  \/ MasterSend("SceneChange", "Program", Payload("B", 0, "", 0))
  \/ \E ty \in Unparseable : MasterSend(ty, "Program", EmptyPayload)
  \/ \E s \in 1..Len(rpc) : ReaderRecv(s)
  \/ ApplierRecv
  \/ ApplyProject
  \/ ApplyMutate("ok")

\* The master's handler for c keeps reading and c stays registered with its writer.
KeepsConnection(c) ==
  /\ hpc'[c] = "reading"
  /\ clients' = clients
  /\ send_task' = send_task
  /\ out_channel' = out_channel

\* The slave's reader of session s reads a frame of an unparseable kind.
ReadsUnparseable(s) ==
  /\ rpc[s] = "reading"
  /\ wire[s] # <<>>
  /\ Head(wire[s]).type \in Unparseable
  /\ wire'[s] = Tail(wire[s])

\* Every frame, well-formed or not, is handled as the code handles it next.
ProcessedNormally ==
  /\ \A c \in Clients :
       /\ RecvFrame(c, "StateSyncRequest", FALSE)
            => cbCount'[c] = cbCount[c] + 1 /\ cbTasks'[c] = cbTasks[c] + 1
       /\ RecvFrame(c, "StateReport", FALSE)
            => c \in DOMAIN slave_statuses' /\ ~slave_statuses'[c].is_synced
  /\ \A s \in 1..Len(rpc) :
       (/\ rpc[s] = "reading" /\ wire[s] # <<>> /\ wire'[s] = Tail(wire[s])
        /\ Head(wire[s]).type \in MessageTypes)
         => rx' = Append(rx, [session |-> s, msg |-> Head(wire[s])])

\* C17 as stated: an unparseable text frame is skipped by the master's per-client
\* reader and by the slave's reader task without closing the connection and without
\* changing any registry map or the projection, and the frames that follow are
\* processed normally.
C17_ProtocolErrorSkipped ==
  [][/\ \A c \in Clients : \A k \in Unparseable :
          RecvFrame(c, k, FALSE)
            => /\ KeepsConnection(c)
               /\ client_info' = client_info
               /\ slave_statuses' = slave_statuses
               /\ cbCount' = cbCount
               /\ expected_state' = expected_state
     /\ \A s \in 1..Len(rpc) :
          ReadsUnparseable(s)
            => /\ rpc' = rpc
               /\ rx' = rx
               /\ expected_state' = expected_state
               /\ UNCHANGED <<clients, client_info, slave_statuses>>
     /\ ProcessedNormally]_vars

\* C17, amended: as above, except that the master refreshes last_activity of the
\* sender's client_info entry, as it does for every frame; no entry is added or
\* removed and nothing else in the registry maps changes.
C17_ProtocolErrorSkippedButTouch ==
  [][/\ \A c \in Clients : \A k \in Unparseable :
          RecvFrame(c, k, FALSE)
            => /\ KeepsConnection(c)
               /\ DOMAIN client_info' = DOMAIN client_info
               /\ \A x \in DOMAIN client_info :
                    /\ x # c => client_info'[x] = client_info[x]
                    /\ [client_info'[x] EXCEPT !.last_activity = 0]
                         = [client_info[x] EXCEPT !.last_activity = 0]
               /\ slave_statuses' = slave_statuses
               /\ cbCount' = cbCount
               /\ expected_state' = expected_state
     /\ \A s \in 1..Len(rpc) :
          ReadsUnparseable(s)
            => /\ rpc' = rpc
               /\ rx' = rx
               /\ expected_state' = expected_state
               /\ UNCHANGED <<clients, client_info, slave_statuses>>
     /\ ProcessedNormally]_vars

\* Both ends have read an unparseable frame and a well-formed one: the master ran
\* the callback for the request of a client still connected, and the slave applied
\* the scene change that followed the frame it skipped.
C17_Witness ==
  /\ hpc[1] = "reading" /\ 1 \in clients
  /\ frames[1] = 2 /\ reqCount[1] = 1 /\ cbCount[1] = 2
  /\ 1 \notin DOMAIN slave_statuses
  /\ client_info[1].last_activity = 1
  /\ Len(sent) = 1 /\ sent[1] = <<1, 2>>
  /\ rpc[1] = "reading"
  /\ applied = <<[session |-> 1, id |-> 2]>>
  /\ expected_state.current_scene = "B"

\* ------------------------------------------------- C18, C19: apply errors
\* The step in which apply_sync_message returns.
ApplyStep == apc = "mutate" /\ apc' = "recv"

\* The mutations of the message just applied that failed.
Failed(log) == {i \in 1..Len(log) : log[i].outcome = "fail"}

\* C18: every BC-API mutation that fails while a message is applied, the per-item
\* mutations of a StateSync included, is answered by one DesyncAlert, and no mutation
\* is attempted twice.
C18_ApplyFailureAlerts ==
  [][ApplyStep =>
       /\ Len(NewAlerts) = Cardinality(Failed(walked'))
       /\ \A i, j \in 1..Len(walked') :
            (walked'[i].kind = walked'[j].kind /\ walked'[i].source = walked'[j].source)
              => i = j]_vars

\* The walk of the snapshot just applied covers the snapshot's mutations, in order.
WalkCovers ==
  /\ Len(walked') = Len(WalkMutations(amsg.payload))
  /\ \A i \in 1..Len(walked') :
       /\ walked'[i].kind = WalkMutations(amsg.payload)[i].kind
       /\ walked'[i].source = WalkMutations(amsg.payload)[i].source

\* The applier is back at its channel with the queued messages still in it.
ApplierContinues == apc' = "recv" /\ rx' = rx

DisconnectCalled == dpc # "idle"

\* The supervisor is at its loop head after disconnect() was called and leaves it
\* through the break.
ExitsAtLoopHead ==
  [][(DisconnectCalled /\ spc = "head" /\ spc' # "head") => spc' = "cancelled"]_vars

\* Every connection attempt made after disconnect() was called is one the supervisor
\* had started on before its loop-head check: having left the loop it never attempts.
NoFurtherAttempt == [][spc = "cancelled" => spc' = "cancelled"]_vars

\* disconnect() has returned, the supervisor has left its loop and no reader task is
\* in the middle of its exit sequence.
Settled ==
  /\ dpc = "done"
  /\ spc \in {"cancelled", "exhausted"}
  /\ \A s \in 1..Len(rpc) : rpc[s] \in {"reading", "ended"}

\* C20 (Disconnect cancels the supervisor): once disconnect() has been called, in
\* every interleaving with the supervisor and the reader tasks, the supervisor's
\* next loop-head check exits, it makes no connection attempt after that, and the
\* reconnection status ends as {is_reconnecting = false, attempt_count = 0,
\* last_error = none}.
C20_DisconnectCancels ==
  /\ ExitsAtLoopHead
  /\ NoFurtherAttempt
  /\ [](Settled =>
          /\ reconnection_status.is_reconnecting = FALSE
          /\ reconnection_status.attempt_count = 0
          /\ reconnection_status.last_error = "None")

\* ------------------------------------------------- lifecycle commands (commands.rs)
\* AppState::new: no component exists; there is no server, so its tasks and its
\* outbound channel do not exist either.
InitLifecycle ==
  /\ InitEngine /\ InitClient /\ InitSlave /\ InitUp /\ InitDrift /\ InitClock
  /\ InitCodec /\ InitBc /\ InitMaster
  /\ master_server = FALSE
  /\ master_sync = FALSE
  /\ slave_client = FALSE
  /\ obs_connected \in BOOLEAN
  /\ app_pc = "idle"
  /\ results = Result(0, "none", TRUE, 0)
  /\ clients = {}
  /\ client_info = EmptyMap
  /\ slave_statuses = EmptyMap
  /\ shutdown = FALSE
  /\ sync_rx = <<>>
  /\ rx_open = FALSE
  /\ bpc = "ended"
  /\ bmsg = NoMsg
  /\ accept_task = "ended"
  /\ hpc = [c \in Clients |-> "idle"]
  /\ out_channel = [c \in Clients |-> <<>>]
  /\ send_task = [c \in Clients |-> "none"]
  /\ stop_pc = "stopped"
  /\ cbTasks = [c \in Clients |-> 0]
  /\ produced = 0
  /\ cbCount = [c \in Clients |-> 0]
  /\ reqCount = [c \in Clients |-> 0]
  /\ frames = [c \in Clients |-> 0]
  /\ resyncs = 0
  /\ atDrain = {}
  /\ drained = <<>>

Returns(cmd, ok, placed) ==
  results' = Result(results.n + 1, cmd, ok, placed)

\* connect_obs / disconnect_obs, or the BC-API session ending.
ObsToggle ==
  /\ obs_connected' = ~obs_connected
  /\ UNCHANGED <<master_server, master_sync, slave_client, app_pc, results>>
  /\ UNCHANGED <<serverVars, engineVars, clientVars, slaveVars, upVars, driftVars, clockVars, codecVars, bcVars, convVars>>

\* start_master_server, invoked while no server runs. o = "bind": MasterServer::start
\* fails (the port is taken) and the receiver handed to it is dropped; o = "listen":
\* the server runs and the event listener fails to start; o = "ok".
StartMasterServer(o) ==
  /\ app_pc = "idle"
  /\ ~master_server
  /\ results.n < MaxCommands
  /\ IF ~obs_connected
       THEN /\ Returns("start_master_server", FALSE, 0)
            /\ UNCHANGED <<master_server, master_sync, serverVars>>
       ELSE /\ master_sync' = TRUE
            /\ sync_rx' = <<>>
            /\ IF o = "bind"
                 THEN /\ rx_open' = FALSE
                      /\ UNCHANGED <<master_server, shutdown, bpc, accept_task, stop_pc>>
                 ELSE /\ rx_open' = TRUE
                      /\ master_server' = TRUE
                      /\ shutdown' = FALSE
                      /\ bpc' = "recv"
                      /\ accept_task' = "running"
                      /\ stop_pc' = "running"
            /\ Returns("start_master_server", o = "ok", 0)
            /\ UNCHANGED <<clients, client_info, slave_statuses, bmsg, hpc, out_channel,
                           send_task, cbTasks, produced, cbCount, reqCount, frames,
                           resyncs, atDrain, drained>>
  /\ UNCHANGED <<slave_client, obs_connected, app_pc>>
  /\ UNCHANGED <<engineVars, clientVars, slaveVars, upVars, driftVars, clockVars, codecVars, bcVars, convVars>>

\* stop_master_server: state.master_server.write().await.take(); with no server the
\* components are cleared at once, otherwise server.stop() runs first.
StopTake ==
  /\ app_pc = "idle"
  /\ results.n < MaxCommands
  /\ IF master_server
       THEN /\ master_server' = FALSE
            /\ app_pc' = "stopping"
            /\ UNCHANGED <<master_sync, results>>
       ELSE /\ master_sync' = FALSE
            /\ Returns("stop_master_server", TRUE, 0)
            /\ UNCHANGED <<master_server, app_pc>>
  /\ UNCHANGED <<slave_client, obs_connected>>
  /\ UNCHANGED <<serverVars, engineVars, clientVars, slaveVars, upVars, driftVars, clockVars, codecVars, bcVars, convVars>>

\* stop_master_server after server.stop() returned: master_sync = None.
StopClear ==
  /\ app_pc = "stopping"
  /\ stop_pc = "stopped"
  /\ master_sync' = FALSE
  /\ app_pc' = "idle"
  /\ Returns("stop_master_server", TRUE, 0)
  /\ UNCHANGED <<master_server, slave_client, obs_connected>>
  /\ UNCHANGED <<serverVars, engineVars, clientVars, slaveVars, upVars, driftVars, clockVars, codecVars, bcVars, convVars>>

ResyncCommands == {"resync_all_slaves", "resync_specific_slave"}

\* resync_all_slaves / resync_specific_slave: with master_sync None Err("Master server
\* is not running"); otherwise send_initial_state, which returns Ok(()) without
\* sending when the BC-API session is missing or a read fails (read = FALSE), and
\* whose send fails when the receiver of the outbound channel is gone.
ResyncCommand(cmd, read) ==
  /\ results.n < MaxCommands
  /\ IF ~master_sync
       THEN /\ Returns(cmd, FALSE, 0)
            /\ UNCHANGED <<sync_rx, produced>>
       ELSE /\ SendInitialState(0, read /\ obs_connected)
            /\ IF read /\ obs_connected
                 THEN Returns(cmd, rx_open, IF rx_open THEN 1 ELSE 0)
                 ELSE Returns(cmd, TRUE, 0)
  /\ UNCHANGED <<master_server, master_sync, slave_client, obs_connected, app_pc>>
  /\ UNCHANGED <<engineVars, clientVars, slaveVars, upVars, driftVars, clockVars, codecVars, bcVars, convVars>>
  /\ UNCHANGED serverButChannel

\* connect_to_master: the SlaveClient is created and stored; its supervisor starts.
ConnectToMaster ==
  /\ app_pc = "idle"
  /\ ~slave_client
  /\ dpc = "idle"
  /\ results.n < MaxCommands
  /\ IF obs_connected
       THEN slave_client' = TRUE /\ Returns("connect_to_master", TRUE, 0)
       ELSE UNCHANGED slave_client /\ Returns("connect_to_master", FALSE, 0)
  /\ UNCHANGED <<master_server, master_sync, obs_connected, app_pc>>
  /\ UNCHANGED <<serverVars, engineVars, clientVars, slaveVars, upVars, driftVars, clockVars, codecVars, bcVars, convVars>>

\* request_resync_from_master: Err("Not connected to master") with no client, else
\* request_resync(), which fails while no sender is stored.
RequestResyncFromMaster ==
  /\ results.n < MaxCommands
  /\ IF slave_client /\ sync_message_tx
       THEN /\ send_rx' = Append(send_rx, UpMsg(accepted + 1, "StateSyncRequest", EmptyMap))
            /\ accepted' = accepted + 1
            /\ Returns("request_resync_from_master", TRUE, 1)
       ELSE /\ UNCHANGED <<send_rx, accepted>>
            /\ Returns("request_resync_from_master", FALSE, 0)
  /\ UNCHANGED <<master_server, master_sync, slave_client, obs_connected, app_pc>>
  /\ UNCHANGED <<send_ready_rx, current_sender, up_sent, up_failed>>
  /\ UNCHANGED <<serverVars, engineVars, clientVars, slaveVars, driftVars, clockVars, codecVars, bcVars, convVars>>

\* The commands of the lifecycle with the server's stop() and the supervisor of a
\* connected client.
NextLifecycle ==
  \/ ObsToggle
  \/ \E o \in {"ok", "bind", "listen"} : StartMasterServer(o)
  \/ StopTake
  \/ app_pc = "stopping" /\ StopSignal
  \/ app_pc = "stopping" /\ StopAbort
  \/ app_pc = "stopping" /\ StopClearClients
  \/ app_pc = "stopping" /\ StopClearInfo
  \/ app_pc = "stopping" /\ StopClearStatuses
  \/ StopClear
  \/ \E cmd \in ResyncCommands, read \in BOOLEAN : ResyncCommand(cmd, read)
  \/ ConnectToMaster
  \/ slave_client /\ SupHead
  \/ slave_client /\ SupCheck
  \/ slave_client /\ ConnectOk
  \/ slave_client /\ SupStore
  \/ RequestResyncFromMaster

\* ------------------------------------------------------ C21: disconnect and link
\* One slave from connect_to_master to disconnect_from_master: the supervisor, the
\* master sending, the reader, the applier, the drift detector and the send task.
NextDisconnect ==
  \/ SupHead
  \/ SupCheck
  \/ ConnectOk
  \/ SupStore
  \/ MasterSend("SceneChange", "Program", Payload("B", 0, "", 0))
  \/ \E s \in 1..Len(rpc) : ReaderRecv(s)
  \/ ApplierRecv
  \/ ApplyProject
  \/ ApplyMutate("ok")
  \/ TickSample(TRUE)
  \/ TickReport
  \/ UpTakeSender
  \/ UpTakeMsg(TRUE)
  \/ DisconnectSignal
  \/ DisconnectStatus
  \/ DisconnectClearTx
  \/ DisconnectClearSync

\* disconnect() has returned.
Disconnected == dpc = "done"

\* C21 (Disconnect closes the link): after disconnect() completes the slave has no
\* open websocket to the master (so the master's reader for it ends and the client
\* leaves the roster), the applier takes no further master message and the send task
\* writes no further StateReport.
C21_DisconnectCloses ==
  /\ [](Disconnected => Live = {})
  /\ [][Disconnected => applied' = applied]_vars
  /\ [][Disconnected => up_sent' = up_sent]_vars

\* ------------------------------------------------------- C22: lifecycle errors
\* No master is running: none was started, a start failed, or stop_master_server
\* has returned.
NoMasterRunning == ~master_server /\ app_pc = "idle"

\* The step is the return of command cmd.
Returned(cmd) == results'.n = results.n + 1 /\ results'.cmd = cmd

\* C22 (Lifecycle errors): resync_all_slaves and resync_specific_slave invoked while
\* no master is running return a failure and place no message on an outbound
\* channel; request_resync_from_master invoked while no slave client exists returns
\* a failure.
C22_LifecycleErrors ==
  /\ [][\A cmd \in ResyncCommands :
          (Returned(cmd) /\ NoMasterRunning) =>
             /\ ~results'.ok
             /\ results'.placed = 0
             /\ sync_rx' = sync_rx
             /\ produced' = produced]_vars
  /\ [][(Returned("request_resync_from_master") /\ ~slave_client) => ~results'.ok]_vars

\* ------------------------------------------------------------ C23: timestamps
\* C23 (Timestamps): every envelope carries a non-zero timestamp, and the timestamps
\* of one sender's envelopes are non-decreasing in the order in which the envelopes
\* are placed on the sender's outbound channel, envelopes built by concurrent
\* detail-fetch tasks included.
C23_Timestamps ==
  \A i \in 1..Len(stamps) :
     /\ stamps[i] # 0
     /\ \A j \in i..Len(stamps) : stamps[i] <= stamps[j]

\* A run of the codec on one well-formed envelope; the components are idle.
InitCodecInputs ==
  /\ InitServer /\ InitEngine /\ InitClient /\ InitSlave /\ InitUp /\ InitDrift
  /\ InitApp /\ InitClock /\ InitBc /\ InitMaster
  /\ envelope \in Envelopes
  /\ json = JNull
  /\ decoded = NoResult

Observable(entry) ==
  [program |-> entry.program, preview |-> entry.obs.preview,
   transform |-> entry.obs.transform, filter_settings |-> entry.obs.filter_settings,
   filter_enabled |-> entry.obs.filter_enabled, image |-> entry.obs.image.data,
   expected |-> entry.expected]

\* C25: applying the same StateSync again, the BC-API answering as before, leaves
\* the observable state of the application (program scene, preview scene, item
\* transform, filter settings and enabled flag) and the projection as the first
\* application left them; only the name of the image cache file is new.
C25_StateSyncIdempotent ==
  \A i \in 1..Len(obs_log) : Observable(obs_log[i]) = Observable(obs_log[1])

\* A snapshot with a transform, an image, a filter and a preview scene was applied
\* twice with every mutation succeeding: two cache files, a state that differs from
\* the initial one.
C25_Witness ==
  /\ Len(obs_log) = 2
  /\ Len(answers) = 6 /\ \A i \in 1..6 : answers[i] = "ok"
  /\ obs_log[2].obs.image.file = 2 /\ obs_log[1].obs.image.file = 1
  /\ obs_log[1].obs.transform \notin ItemTransforms
  /\ obs_log[1].program = "B" /\ obs_log[1].obs.preview = "C"

\* --------------------------------------------- C26: the frame of TransformUpdate
\* The step that applies the TransformUpdate sync_in.
TransformUpdateStep == "transform" \in DOMAIN sync_in /\ obs_log' # obs_log

\* C26: a TransformUpdate writes, of the item's transform, only scalars among
\* position_x, position_y, scale_x, scale_y, rotation that the payload carries (as
\* numbers); a scalar the payload lacks keeps its value, and width, height and
\* cropping keep theirs whatever the payload holds.
C26_TransformFrame ==
  [][TransformUpdateStep =>
       \A fld \in TransformFields :
         \/ obs'.transform[fld] = obs.transform[fld]
         \/ /\ fld \in TransformScalars
            /\ sync_in.transform # NoObject
            /\ fld \in DOMAIN sync_in.transform
            /\ IsNumber(sync_in.transform[fld])
            /\ obs'.transform[fld] = F32(sync_in.transform[fld].v)]_vars

\* A TransformUpdate carrying position_x, width and cropping but no rotation was
\* applied: position_x changed, rotation, width and cropping did not.
C26_Witness ==
  /\ "transform" \in DOMAIN sync_in /\ sync_in.transform # NoObject
  /\ DOMAIN sync_in.transform = {"position_x", "width", "cropping"}
  /\ Len(obs_log) = 1
  /\ answers[1] = "ok"
  /\ obs.transform.position_x = F32(13) /\ obs.transform.position_x # 13
  /\ obs.transform.width = 8 /\ obs.transform.cropping = 8 /\ obs.transform.rotation = 8

\* ------------------------------------- C27: input settings without a file path
\* Settings that lack a file key or hold an empty one.
LacksFile(settings) ==
  /\ settings # SettingsErr
  /\ "file" \in DOMAIN settings => settings.file = VString("")

\* C27: an InputSettingsChanged whose fetched settings lack a file key, or hold an
\* empty one, places no message on the outbound channel, whatever the active
\* targets: neither its dispatch nor its task does.
C27_NoFileNoMessage ==
  [][/\ (epc = "dispatch" /\ ev.kind = "InputSettingsChanged" /\ epc' = "recv")
          => UNCHANGED <<sync_rx, produced>>
     /\ \A t \in fetchTasks, settings \in SettingsResults, readable \in BOOLEAN :
          LacksFile(settings) /\ InputFetchTask(t, settings, readable)
            => UNCHANGED <<sync_rx, produced>>]_vars

\* The task of an InputSettingsChanged ended on settings with an empty file path,
\* with Source among the targets, and the channel never carried a message.
C27_Witness ==
  /\ [kind |-> "settings", targets |-> {"Program", "Source"},
      settings |-> [file |-> VString("")]] \in evLog
  /\ fetchTasks = {}
  /\ spawned = 1
  /\ produced = 0

\* -------------------------------------- C28: preview scene with studio mode off
\* The step that walks a snapshot in which the preview scene switch fails and every
\* other mutation succeeds.
PreviewOnlyFails ==
  /\ apc = "mutate" /\ apc' = "recv"
  /\ "scenes" \in DOMAIN amsg.payload
  /\ walked' # walked
  /\ \E i \in 1..Len(walked') : walked'[i].kind = "preview"
  /\ \A i \in 1..Len(walked') :
       walked'[i].outcome = (IF walked'[i].kind = "preview" THEN "fail" ELSE "ok")

\* C28: a StateSync with a preview scene whose set_current_preview_scene fails, all
\* other mutations succeeding, sends exactly one alert, a Warning, and the apply
\* returns Ok with the program scene set.
C28_PreviewWarning ==
  [][PreviewOnlyFails =>
       /\ Len(alerts') = Len(alerts) + 1
       /\ SubSeq(alerts', 1, Len(alerts)) = alerts
       /\ alerts'[Len(alerts')].severity = "Warning"
       /\ alerts'[Len(alerts')].scene_name = amsg.payload.current_preview_scene
       /\ applyOutcome' = "ok"
       /\ local_scene' = amsg.payload.current_program_scene]_vars

\* The snapshot with program scene "B" and preview scene "A" was walked on a slave
\* showing "A": six mutations, the last one, the preview switch, failed.
C28_Witness ==
  /\ Len(walked) = 6
  /\ walked[6].kind = "preview" /\ walked[6].outcome = "fail"
  /\ \A i \in 1..5 : walked[i].outcome = "ok"
  /\ Len(alerts) = 1 /\ alerts[1].severity = "Warning"
  /\ applyOutcome = "ok"
  /\ local_scene = "B"

\* ------------------------------------------- C29: one connection to the master
\* The step in which connect_async returns a new connection.
Connects == Len(rpc') = Len(rpc) + 1

\* C29: once connected, the supervisor opens a new connection only after the
\* previous one was lost: no connection is opened while one is live, and the slave
\* never holds two live connections to the master.
C29_OneLiveConnection ==
  /\ [](Cardinality(Live) <= 1)
  /\ [][Connects => Live = {}]_vars

\* ------------------------------------------------------------ C30: server stop
\* stop() has returned.
Stopped == stop_pc = "stopped"

\* C30: after stop() has returned the three maps are empty and stay empty, and no
\* frame is queued for a client any more.
C30_StopEmpties ==
  /\ [](Stopped => clients = {} /\ client_info = EmptyMap /\ slave_statuses = EmptyMap)
  /\ [][Stopped => out_channel' = out_channel]_vars

\* -------------------------------------------- C31: registry and live channels
\* The per-client channel of c exists and its receiving half has not been dropped.
Open(c) == hpc[c] \in {"insInfo", "reading", "rmInfo", "rmStatus"} /\ ChannelOpen(c)

\* C31: every client_id in `clients` has an open channel, and every open channel
\* belongs to a client_id in `clients`.
C31_RegistryLive ==
  /\ \A c \in clients : Open(c)
  /\ \A c \in Clients : Open(c) => c \in clients

\* ------------------------------------------- C32: upstream frames on the master
\* The entries of map m other than c's are the same in n.
OthersKept(m, n, c) ==
  /\ DOMAIN n \ {c} = DOMAIN m \ {c}
  /\ \A d \in DOMAIN m \ {c} : n[d] = m[d]

\* Text frames that parse as an envelope of a type the reader has no arm for.
IgnoredTypes == {"OtherType"}

TakesWithoutSender ==
  /\ current_sender = 0
  /\ send_rx # <<>>
  /\ send_rx' # send_rx
  /\ Len(send_rx') <= Len(send_rx)

\* C33: an upstream envelope taken off the channel while no sender half is held is
\* discarded: it is gone from the channel, is not transmitted then, and an
\* envelope that is neither queued nor transmitted is never transmitted later;
\* every envelope is transmitted at most once.
C33_UpstreamNoBuffering ==
  /\ [][TakesWithoutSender => send_rx' = Tail(send_rx) /\ up_sent' = up_sent]_vars
  /\ [][\A n \in 1..accepted :
          n \notin Queued /\ n \notin Transmitted => n \notin Transmitted']_vars
  /\ [](\A i, j \in 1..Len(up_sent) : up_sent[i].msg.id = up_sent[j].msg.id => i = j)

\* One request was taken while no sender was held and is gone; a later one was
\* transmitted on the connection.
C33_Witness ==
  /\ accepted = 2
  /\ send_rx = <<>>
  /\ Transmitted = {2}
  /\ up_failed = {}

\* ------------------------------------------- C34: one StateSync per invocation
\* The step in which an invocation of send_initial_state by a resync command, or by
\* the future of the initial-state callback, completes.
SnapshotCompletes ==
  \/ resyncs' = resyncs + 1
  \/ \E c \in Clients : cbTasks'[c] = cbTasks[c] - 1

\* C34: every completed invocation of send_initial_state places exactly one
\* StateSync on the outbound channel.
C34_SnapshotEnqueued ==
  [][SnapshotCompletes =>
       /\ Len(sync_rx') = Len(sync_rx) + 1
       /\ SubSeq(sync_rx', 1, Len(sync_rx)) = sync_rx
       /\ sync_rx'[Len(sync_rx')].type = "StateSync"]_vars

\* ----------------------------------------- C35: replacing the active targets
\* C35: set_active_targets replaces the set in one step and retracts nothing from
\* the outbound channel, and every message placed on the channel after it has
\* returned has a target_type of the set it stored.
C35_TargetsReplaced ==
  [][/\ active_targets' # active_targets
          => /\ active_targets' \in TargetSets
             /\ sync_rx' = sync_rx
     /\ (active_targets' = active_targets /\ Enqueued)
          => NewMsg.target_type \in active_targets]_vars

\* ------------------------------------------- C36: a failed read drops the message
\* Endings of a detail fetch in which a read needed to build the message failed:
\* the BC-API read, or the read of the image file.
FailedReads == {"fail", "noimage"}

\* C36: a detail fetch in which a read failed places no message on the outbound
\* channel and leaves the event consumer and its queue as they are, so that later
\* events are still processed.
C36_FetchErrorDrops ==
  [][\A t \in fetchTasks : \A o \in FailedReads \cap FetchOutcomes(t.ev.kind) :
       FetchTask(t, o)
         => /\ sync_rx' = sync_rx /\ produced' = produced
            /\ UNCHANGED <<epc, ev, obs_event_rx>>]_vars

\* C36, amended: a detail fetch whose BC-API read failed places no message; one
\* whose image file could not be read still places its ImageUpdate, with a null
\* image_data; in both cases the event consumer and its queue are left as they
\* are, so that later events are still processed.
C36_FetchErrorDropsButImage ==
  [][\A t \in fetchTasks :
       /\ FetchTask(t, "fail")
            => /\ sync_rx' = sync_rx /\ produced' = produced
               /\ UNCHANGED <<epc, ev, obs_event_rx>>
       /\ (t.ev.kind = "InputSettingsChanged" /\ FetchTask(t, "noimage"))
            => /\ rx_open => /\ Len(sync_rx') = Len(sync_rx) + 1
                             /\ NewMsg.type = "ImageUpdate"
                             /\ NewMsg.payload.value = 0
               /\ UNCHANGED <<epc, ev, obs_event_rx>>]_vars

\* Two detail fetches have ended, one for a transform change and one for an input:
\* the only message on the channel is an ImageUpdate without image data, so the
\* transform read failed and the image file could not be read.
C36_Witness ==
  /\ spawned = 2
  /\ fetchTasks = {}
  /\ \E r \in evLog : r.kind = "SceneItemTransformChanged" /\ "Source" \in r.targets
  /\ \E r \in evLog : r.kind = "InputSettingsChanged" /\ "Source" \in r.targets
  /\ produced = 1
  /\ Len(sync_rx) = 1
  /\ sync_rx[1].type = "ImageUpdate" /\ sync_rx[1].payload.value = 0

\* ------------------------------------------------- claims: convergence
\* The master's events have stopped and every produced message was delivered and
\* applied.
AllApplied ==
  /\ obs_event_rx = <<>>
  /\ epc = "recv"
  /\ fetchTasks = {}
  /\ sync_rx = <<>>
  /\ rx = <<>>
  /\ apc = "recv"

\* The applier completes the application of a SceneChange with target_type Preview.
AppliesPreview ==
  /\ apc = "mutate"
  /\ apc' = "recv"
  /\ amsg.type = "SceneChange"
  /\ amsg.target_type = "Preview"

\* C37: with Program among the active targets, once the master's events have stopped
\* and every message was delivered and applied, the slave's program scene and the
\* current_scene of its projection are the master's program scene (if the master
\* changed it at all); and the application of a preview-scene change of the master
\* leaves the slave's program scene as it was.
C37_ProgramConverges ==
  /\ [](AllApplied /\ produced > 0 /\ "Program" \in active_targets
          => local_scene = m_scene /\ expected_state.current_scene = m_scene)
  /\ [][AppliesPreview => local_scene' = local_scene]_vars


\* The slave has applied a TransformUpdate and nothing is on its way.
MovesApplied == AllApplied /\ produced > 0 /\ held = EmptyMap

\* C38: once the master's SceneItemTransformChanged events have stopped and every
\* TransformUpdate was delivered and applied, position, scale and rotation of the
\* slave's item are those of the master's item, however the detail-fetch tasks
\* interleave.
C38_TransformConverges ==
  MovesApplied => \A fld \in TransformScalars :
                    obs.transform[fld] = MasterTransform(m_xform)[fld]


\* ------------------------------------------------- claims: snapshot fan-out
\* The broadcast task fans out a StateSync.
SnapshotFanOut == FanOutStep /\ bmsg.type = "StateSync"

\* A completed send_initial_state that produced a StateSync placed it at the end of
\* the shared outbound channel.
SnapshotPlaced ==
  [][produced' # produced =>
       /\ sync_rx' = Append(sync_rx, NewMsg)
       /\ NewMsg.type = "StateSync"]_vars

Terminated == spc \in {"cancelled", "exhausted"}

\* C40: in every reachable state attempt_count is at most max_attempts, and once the
\* supervisor has terminated no step turns is_reconnecting from false to true.
C40_StatusBounds ==
  /\ [](reconnection_status.attempt_count <= reconnection_status.max_attempts)
  /\ [][Terminated /\ ~reconnection_status.is_reconnecting
          => ~reconnection_status'.is_reconnecting]_vars


Init ==
  InitServer /\ InitEngine /\ InitClient /\ InitSlave /\ InitUp /\ InitDrift /\ InitApp
  /\ InitClock /\ InitCodec /\ InitBc /\ InitMaster

SpecRoster == Init /\ [][NextRoster]_vars

SpecBroadcast == Init /\ [][NextBroadcast]_vars

SpecEngine == Init /\ [][NextEngine]_vars

SpecClient == Init /\ [][NextClient]_vars

SpecSlave == Init /\ [][NextSlave]_vars

SpecSupervisor == Init /\ [][NextSupervisor]_vars

SpecResync == Init /\ [][NextResync]_vars /\ FairResync

SpecUpstream == Init /\ [][NextUpstream]_vars

SpecDrift == Init /\ [][NextDrift]_vars

SpecDiff == InitDiff /\ [][NextDiff]_vars

SpecApply == Init /\ [][NextApply]_vars

SpecProtocol == Init /\ [][NextProtocol]_vars

SpecSourceDrift == Init /\ [][NextSourceDrift]_vars

SpecDisconnect == Init /\ [][NextDisconnect]_vars

SpecLifecycle == InitLifecycle /\ [][NextLifecycle]_vars

SpecClock == Init /\ [][NextClock]_vars

SpecCodec == InitCodecInputs /\ [][NextCodec]_vars

SpecIdempotent == InitStateSyncs /\ [][ApplyStateSync]_vars

SpecTransform == InitTransformUpdates /\ [][ApplyTransformUpdate]_vars

SpecInput == Init /\ [][NextInput]_vars

SpecReports == Init /\ [][NextReports]_vars

SpecFetch == Init /\ [][NextFetch]_vars
SpecScenes == InitConverge /\ [][NextScenes]_vars
SpecMoves == InitConverge /\ [][NextMoves]_vars

====
